---------------------------- MODULE Spec2Model ----------------------------
(***************************************************************************)
(* SmithTool core: the MatchingTrace trajectory engine (trace.cpp), the    *)
(* MatchingCalculator network synthesizer and the ComponentCalculator      *)
(* (matching.cpp), the conversions of SmithMath (smithmath.cpp) and the    *)
(* select-point add mode of the main window (mainwindow.cpp,               *)
(* smithchartwidget.cpp).                                                  *)
(*                                                                         *)
(* Numbers.  The code computes in double and std::complex<double>.  The    *)
(* model computes in exact rational arithmetic: a number is a record       *)
(* [n, d] in lowest terms with d > 0.  One extra value, NonFinite          *)
(* (d = 0), stands for every IEEE inf/NaN a division by zero or a square   *)
(* root of a negative number produces; it is absorbing and every           *)
(* comparison with it is false, as for NaN.  Rounding error of double is   *)
(* not modelled.  SmithMath::PI is the rational 22/7 (the code's PI is a   *)
(* rational approximation too); frequencies are chosen so that 2*PI*f is a *)
(* small rational.                                                         *)
(***************************************************************************)
EXTENDS Integers, Sequences, FiniteSets, TLC

VARIABLES
    trace,      \* the MatchingTrace object: its five data members
    calc,       \* the MatchingCalculator object: its four data members
    solutions,  \* the list returned by the last MatchingCalculator call
    setterCalls,\* how many parameter setters of the trace were called
    lastOp,     \* the last operation performed and the index it was given
    call,       \* the last call of a function: name, arguments, result
    window      \* the chart widget's interaction state and the circuit view

vars == <<trace, calc, solutions, setterCalls, lastOp, call, window>>

---------------------------------------------------------------------------
(* Rational arithmetic (double).                                           *)

Abs(i) == IF i < 0 THEN -i ELSE i

RECURSIVE GCD(_, _)
GCD(a, b) == IF b = 0 THEN a ELSE GCD(b, a % b)

NonFinite == [n |-> 0, d |-> 0]

IsFinite(a) == a.d # 0

Rat(n, d) ==
    IF d = 0 THEN NonFinite
    ELSE LET g == GCD(Abs(n), Abs(d))
             s == IF d < 0 THEN -1 ELSE 1
         IN  [n |-> s * (n \div g), d |-> s * (d \div g)]

Int2Rat(i) == [n |-> i, d |-> 1]

Zero == Int2Rat(0)
One  == Int2Rat(1)

RNeg(a) == [n |-> -a.n, d |-> a.d]

RAdd(a, b) ==
    IF ~IsFinite(a) \/ ~IsFinite(b) THEN NonFinite
    ELSE LET g == GCD(a.d, b.d)
         IN  Rat(a.n * (b.d \div g) + b.n * (a.d \div g), (a.d \div g) * b.d)

RSub(a, b) == RAdd(a, RNeg(b))

RMul(a, b) ==
    IF ~IsFinite(a) \/ ~IsFinite(b) THEN NonFinite
    ELSE LET g1 == GCD(Abs(a.n), b.d)
             g2 == GCD(Abs(b.n), a.d)
         IN  [n |-> (a.n \div g1) * (b.n \div g2),
              d |-> (a.d \div g2) * (b.d \div g1)]

\* a / b; a zero divisor gives inf or NaN in double.
RDiv(a, b) ==
    IF ~IsFinite(a) \/ ~IsFinite(b) \/ b.n = 0 THEN NonFinite
    ELSE RMul(a, IF b.n < 0 THEN [n |-> -b.d, d |-> -b.n]
                            ELSE [n |-> b.d, d |-> b.n])

RLt(a, b) == IsFinite(a) /\ IsFinite(b) /\ a.n * b.d < b.n * a.d
RGt(a, b) == RLt(b, a)
RLe(a, b) == IsFinite(a) /\ IsFinite(b) /\ a.n * b.d <= b.n * a.d
RGe(a, b) == RLe(b, a)

RAbs(a) == [n |-> Abs(a.n), d |-> a.d]

\* A faulty std::min that returns the larger argument.
RMinSwapped(a, b) == IF RLt(b, a) THEN a ELSE b

RMin(a, b) == IF RLt(b, a) THEN b ELSE a   \* std::min
RMax(a, b) == IF RLt(a, b) THEN b ELSE a   \* std::max

---------------------------------------------------------------------------
(* Complex arithmetic (std::complex<double>).                              *)

Complex(re, im) == [re |-> re, im |-> im]

CAdd(a, b) == Complex(RAdd(a.re, b.re), RAdd(a.im, b.im))
CSub(a, b) == Complex(RSub(a.re, b.re), RSub(a.im, b.im))
CMul(a, b) == Complex(RSub(RMul(a.re, b.re), RMul(a.im, b.im)),
                      RAdd(RMul(a.re, b.im), RMul(a.im, b.re)))

\* (a + jb) / (c + jd) = ((ac + bd) + j(bc - ad)) / (c^2 + d^2)
CDiv(a, b) ==
    LET den == RAdd(RMul(b.re, b.re), RMul(b.im, b.im))
    IN  Complex(RDiv(RAdd(RMul(a.re, b.re), RMul(a.im, b.im)), den),
                RDiv(RSub(RMul(a.im, b.re), RMul(a.re, b.im)), den))

CReal(r) == Complex(r, Zero)
COne == Complex(One, Zero)

CFinite(z) == IsFinite(z.re) /\ IsFinite(z.im)

---------------------------------------------------------------------------
(* smithmath.h / smithmath.cpp                                             *)

PI == Rat(22, 7)

TwoPiF(freq) == RMul(RMul(Int2Rat(2), PI), freq)

impedanceToGamma(z, z0) == CDiv(CSub(z, CReal(z0)), CAdd(z, CReal(z0)))

ComponentType ==
    {"Resistor", "Inductor", "Capacitor", "TransmissionLine",
     "OpenStub", "ShortStub", "None"}

ConnectionType == {"Series", "Shunt"}


---------------------------------------------------------------------------
(* trace.h: TracePoint, TraceSegment                                       *)

\* A TracePoint.  Its gamma member is always SmithMath::impedanceToGamma of
\* its impedance member and the trace's m_z0 at the time of the call; the
\* model keeps that z0 and evaluates gamma on demand (Gamma), since the
\* quotient of a sampled arc point does not fit TLC's 32-bit integers.
TracePoint(z, z0, f) == [impedance |-> z, z0 |-> z0, frequency |-> f]

Gamma(p) == impedanceToGamma(p.impedance, p.z0)

\* TracePoint(): gamma(0,0), impedance(50,0), frequency(1e9)
TracePointDefault ==
    TracePoint(Complex(Int2Rat(50), Zero), Int2Rat(50), Int2Rat(1000000000))

\* QString(fmt).arg(arg, 0, 'f', prec): the formatted text, kept as the call.
Label(fmt, arg, prec) == [fmt |-> fmt, arg |-> arg, prec |-> prec]
NoLabel == Label("", Zero, 0)

\* TraceSegment()
TraceSegmentDefault ==
    [points         |-> <<>>,
     type           |-> "Custom",
     color          |-> "Qt::blue",
     label          |-> NoLabel,
     componentType  |-> "None",
     connectionType |-> "Series",
     componentValue |-> Zero]

startPoint(seg) ==
    IF seg.points = <<>> THEN TracePointDefault ELSE Head(seg.points)

endPoint(seg) ==
    IF seg.points = <<>> THEN TracePointDefault
    ELSE seg.points[Len(seg.points)]

---------------------------------------------------------------------------
(* trace.cpp: MatchingTrace                                                *)

s_colors ==
    <<"Blue", "Red", "Green", "Orange", "Purple", "Cyan", "Yellow", "Gray">>

\* numPoints = 50, the default argument of the four arc generators
NumPoints == 50

\* the floor of generateConstantXArc / generateConstantBArc: 0.001
ArcFloor == Rat(1, 1000)

\* value > 1e-18.  1e-18 is below the resolution of the model's rationals
\* (every positive one is at least 2^-31), so the test is value > 0.
AboveCapThreshold(value) == RGt(value, Zero)

\* t = static_cast<double>(i) / (numPoints - 1), i = 0 .. numPoints - 1
ArcT(i) == Rat(i, NumPoints - 1)

generateConstantRArc(t, startZ, deltaX) ==
    LET r == startZ.re
        startX == startZ.im
    IN  [k \in 1..NumPoints |->
            LET x == RAdd(startX, RMul(ArcT(k - 1), deltaX))
            IN  TracePoint(Complex(r, x), t.m_z0, t.m_frequency)]

generateConstantGArc(t, startY, deltaB) ==
    LET g == startY.re
        startB == startY.im
    IN  [k \in 1..NumPoints |->
            LET b == RAdd(startB, RMul(ArcT(k - 1), deltaB))
                z == CDiv(COne, Complex(g, b))
            IN  TracePoint(z, t.m_z0, t.m_frequency)]

generateConstantXArc(t, startZ, deltaR) ==
    LET x == startZ.im
        startR == startZ.re
    IN  [k \in 1..NumPoints |->
            LET r0 == RAdd(startR, RMul(ArcT(k - 1), deltaR))
                r  == IF RLt(r0, ArcFloor) THEN ArcFloor ELSE r0
            IN  TracePoint(Complex(r, x), t.m_z0, t.m_frequency)]

generateConstantBArc(t, startY, deltaG) ==
    LET b == startY.im
        startG == startY.re
    IN  [k \in 1..NumPoints |->
            LET g0 == RAdd(startG, RMul(ArcT(k - 1), deltaG))
                g  == IF RLt(g0, ArcFloor) THEN ArcFloor ELSE g0
                z  == CDiv(COne, Complex(g, b))
            IN  TracePoint(z, t.m_z0, t.m_frequency)]

currentImpedance(t) ==
    IF t.m_segments = <<>> THEN t.m_loadZ
    ELSE endPoint(t.m_segments[Len(t.m_segments)]).impedance

currentGamma(t) == impedanceToGamma(currentImpedance(t), t.m_z0)

\* A faulty nextColor that stays on the last palette entry instead of
\* wrapping around.
nextColorNoWrap(t) ==
    s_colors[(IF Len(t.m_segments) >= Len(s_colors)
              THEN Len(s_colors) - 1
              ELSE Len(t.m_segments)) + 1]

nextColor(t) == s_colors[(Len(t.m_segments) % Len(s_colors)) + 1]

\* deltaX of a series capacitor / deltaB of a shunt inductor
NegInvOmega(t, value) ==
    IF AboveCapThreshold(value)
    THEN RDiv(Int2Rat(-1), RMul(TwoPiF(t.m_frequency), value))
    ELSE Zero

calculateSeriesElement(t, type, value) ==
    LET seg == [TraceSegmentDefault EXCEPT
                    !.componentType = type,
                    !.connectionType = "Series",
                    !.componentValue = value,
                    !.color = nextColor(t)]
        startZ == currentImpedance(t)
    IN  CASE type = "Inductor" ->
                [seg EXCEPT
                    !.type = "ConstantR",
                    !.label = Label("L = %1 nH", value, 2),
                    !.points = generateConstantRArc(t, startZ,
                                   RMul(TwoPiF(t.m_frequency), value))]
          [] type = "Capacitor" ->
                [seg EXCEPT
                    !.type = "ConstantR",
                    !.label = Label("C = %1 pF", value, 2),
                    !.points = generateConstantRArc(t, startZ,
                                   NegInvOmega(t, value))]
          [] type = "Resistor" ->
                [seg EXCEPT
                    !.type = "ConstantX",
                    !.label = Label("R = %1 Ohm", value, 1),
                    !.points = generateConstantXArc(t, startZ, value)]
          [] OTHER -> seg

calculateShuntElement(t, type, value) ==
    LET seg == [TraceSegmentDefault EXCEPT
                    !.componentType = type,
                    !.connectionType = "Shunt",
                    !.componentValue = value,
                    !.color = nextColor(t)]
        startZ == currentImpedance(t)
        startY == CDiv(COne, startZ)
    IN  CASE type = "Capacitor" ->
                [seg EXCEPT
                    !.type = "ConstantG",
                    !.label = Label("C = %1 pF (shunt)", value, 2),
                    !.points = generateConstantGArc(t, startY,
                                   RMul(TwoPiF(t.m_frequency), value))]
          [] type = "Inductor" ->
                [seg EXCEPT
                    !.type = "ConstantG",
                    !.label = Label("L = %1 nH (shunt)", value, 2),
                    !.points = generateConstantGArc(t, startY,
                                   NegInvOmega(t, value))]
          [] type = "Resistor" ->
                [seg EXCEPT
                    !.type = "ConstantB",
                    !.label = Label("R = %1 Ohm (shunt)", value, 1),
                    !.points = generateConstantBArc(t, startY,
                                   RDiv(One, value))]
          [] OTHER -> seg

addSegment(t, segment) ==
    [t EXCEPT !.m_segments = Append(@, segment)]

\* A faulty removeLastSegment that drops the oldest segment instead.
removeFirstSegment(t) ==
    IF t.m_segments # <<>>
    THEN [t EXCEPT !.m_segments = Tail(@)]
    ELSE t

removeLastSegment(t) ==
    IF t.m_segments # <<>>
    THEN [t EXCEPT !.m_segments = SubSeq(@, 1, Len(@) - 1)]
    ELSE t

clear(t) == [t EXCEPT !.m_segments = <<>>]

numSegments(t) == Len(t.m_segments)

\* A faulty segment(index) whose upper bound test is off by one and that
\* answers an index at or above the count with the last segment.
segmentClamped(t, index) ==
    IF index < 0 \/ t.m_segments = <<>> THEN TraceSegmentDefault
    ELSE IF index >= Len(t.m_segments) THEN t.m_segments[Len(t.m_segments)]
    ELSE t.m_segments[index + 1]

\* segment(index), index counted from 0 as in the code
segment(t, index) ==
    IF index < 0 \/ index >= Len(t.m_segments) THEN TraceSegmentDefault
    ELSE t.m_segments[index + 1]

\* updateSegmentValue, lines 104-164: the points (and label) of the edited
\* segment, recomputed from startZ and its new componentValue.
RecomputeEdited(t, seg, startZ) ==
    LET newValue == seg.componentValue
        startY == CDiv(COne, startZ)
    IN  IF seg.connectionType = "Series"
        THEN CASE seg.componentType = "Inductor" ->
                    [seg EXCEPT
                        !.label = Label("L = %1 nH", newValue, 2),
                        !.points = generateConstantRArc(t, startZ,
                                       RMul(TwoPiF(t.m_frequency), newValue))]
               [] seg.componentType = "Capacitor" ->
                    [seg EXCEPT
                        !.label = Label("C = %1 pF", newValue, 2),
                        !.points = generateConstantRArc(t, startZ,
                                       NegInvOmega(t, newValue))]
               [] seg.componentType = "Resistor" ->
                    [seg EXCEPT
                        !.label = Label("R = %1 Ohm", newValue, 1),
                        !.points = generateConstantXArc(t, startZ, newValue)]
               [] OTHER -> seg
        ELSE CASE seg.componentType = "Capacitor" ->
                    [seg EXCEPT
                        !.label = Label("C = %1 pF (shunt)", newValue, 2),
                        !.points = generateConstantGArc(t, startY,
                                       RMul(TwoPiF(t.m_frequency), newValue))]
               [] seg.componentType = "Inductor" ->
                    [seg EXCEPT
                        !.label = Label("L = %1 nH (shunt)", newValue, 2),
                        !.points = generateConstantGArc(t, startY,
                                       NegInvOmega(t, newValue))]
               [] seg.componentType = "Resistor" ->
                    [seg EXCEPT
                        !.label = Label("R = %1 Ohm (shunt)", newValue, 1),
                        !.points = generateConstantBArc(t, startY,
                                       RDiv(One, newValue))]
               [] OTHER -> seg

\* updateSegmentValue, lines 168-224: the points of a later segment,
\* recomputed from nextStartZ and its own componentValue.
RecomputeNext(t, nextSeg, nextStartZ) ==
    LET value == nextSeg.componentValue
        nextStartY == CDiv(COne, nextStartZ)
    IN  IF nextSeg.connectionType = "Series"
        THEN CASE nextSeg.componentType = "Inductor" ->
                    [nextSeg EXCEPT !.points =
                        generateConstantRArc(t, nextStartZ,
                            RMul(TwoPiF(t.m_frequency), value))]
               [] nextSeg.componentType = "Capacitor" ->
                    [nextSeg EXCEPT !.points =
                        generateConstantRArc(t, nextStartZ,
                            NegInvOmega(t, value))]
               [] nextSeg.componentType = "Resistor" ->
                    [nextSeg EXCEPT !.points =
                        generateConstantXArc(t, nextStartZ, value)]
               [] OTHER -> nextSeg
        ELSE CASE nextSeg.componentType = "Capacitor" ->
                    [nextSeg EXCEPT !.points =
                        generateConstantGArc(t, nextStartY,
                            RMul(TwoPiF(t.m_frequency), value))]
               [] nextSeg.componentType = "Inductor" ->
                    [nextSeg EXCEPT !.points =
                        generateConstantGArc(t, nextStartY,
                            NegInvOmega(t, value))]
               [] nextSeg.componentType = "Resistor" ->
                    [nextSeg EXCEPT !.points =
                        generateConstantBArc(t, nextStartY,
                            RDiv(One, value))]
               [] OTHER -> nextSeg

\* the loop of lines 167-225, from position i (counted from 1) to the end
RECURSIVE RecomputeFrom(_, _, _)
RecomputeFrom(t, segs, i) ==
    IF i > Len(segs) THEN segs
    ELSE RecomputeFrom(t,
            [segs EXCEPT ![i] =
                RecomputeNext(t, segs[i], endPoint(segs[i - 1]).impedance)],
            i + 1)

\* A faulty updateSegmentValue that recomputes the edited segment and leaves
\* the segments after it as they were.
updateSegmentValueNoWalk(t, index, newValue) ==
    IF index < 0 \/ index >= Len(t.m_segments) THEN t
    ELSE LET i == index + 1
             seg == [t.m_segments[i] EXCEPT !.componentValue = newValue]
             startZ == IF index = 0 THEN t.m_loadZ
                       ELSE endPoint(t.m_segments[i - 1]).impedance
         IN  [t EXCEPT !.m_segments[i] = RecomputeEdited(t, seg, startZ)]

\* A faulty updateSegmentValue that draws the new arc of the edited segment
\* from where its old arc ended.
updateSegmentValueFromEnd(t, index, newValue) ==
    IF index < 0 \/ index >= Len(t.m_segments) THEN t
    ELSE LET i == index + 1
             seg == [t.m_segments[i] EXCEPT !.componentValue = newValue]
             startZ == endPoint(t.m_segments[i]).impedance
             edited == [t.m_segments EXCEPT
                           ![i] = RecomputeEdited(t, seg, startZ)]
         IN  [t EXCEPT !.m_segments = RecomputeFrom(t, edited, i + 1)]

\* updateSegmentValue(index, newValue), index counted from 0 as in the code
updateSegmentValue(t, index, newValue) ==
    IF index < 0 \/ index >= Len(t.m_segments) THEN t
    ELSE LET i == index + 1
             seg == [t.m_segments[i] EXCEPT !.componentValue = newValue]
             startZ == IF index = 0 THEN t.m_loadZ
                       ELSE endPoint(t.m_segments[i - 1]).impedance
             edited == [t.m_segments EXCEPT
                           ![i] = RecomputeEdited(t, seg, startZ)]
         IN  [t EXCEPT !.m_segments = RecomputeFrom(t, edited, i + 1)]

setSourceImpedance(t, zs) == [t EXCEPT !.m_sourceZ = zs]
\* A faulty setLoadImpedance that also drops the segments computed from the
\* old load.
setLoadImpedanceClearing(t, zl) ==
    [t EXCEPT !.m_loadZ = zl, !.m_segments = <<>>]

setLoadImpedance(t, zl)   == [t EXCEPT !.m_loadZ = zl]
setZ0(t, z0)              == [t EXCEPT !.m_z0 = z0]
setFrequency(t, freq)     == [t EXCEPT !.m_frequency = freq]

---------------------------------------------------------------------------
(* <cmath>                                                                 *)

\* An irrational square root is cut to a multiple of 1/SqrtScale.
SqrtScale == 100

\* the largest k in lo..hi with k*k <= m
RECURSIVE ISqrtSearch(_, _, _)
ISqrtSearch(m, lo, hi) ==
    IF lo = hi THEN lo
    ELSE LET mid == (lo + hi + 1) \div 2
         IN  IF mid * mid <= m THEN ISqrtSearch(m, mid, hi)
                               ELSE ISqrtSearch(m, lo, mid - 1)

ISqrt(m) == ISqrtSearch(m, 0, 46340)

\* std::sqrt: NaN below zero, the exact root of a rational square
Sqrt(x) ==
    IF ~IsFinite(x) \/ x.n < 0 THEN NonFinite
    ELSE LET r == ISqrt(x.n * x.d)
         IN  IF r * r = x.n * x.d THEN Rat(r, x.d)
             ELSE Rat(ISqrt(x.n * x.d * SqrtScale * SqrtScale),
                      x.d * SqrtScale)

\* std::abs(x) > 1e-12 (or 1e-10): no value of the model lies in (0, 1e-10]
ExceedsEps(x) == RGt(RAbs(x), Zero)

\* std::abs(x) < 1e-10
BelowEps(x) == IsFinite(x) /\ x.n = 0

---------------------------------------------------------------------------
(* matching.h / matching.cpp: MatchingCalculator                           *)

MatchingTopology ==
    {"LSection", "LSection_Reversed", "PiNetwork", "TNetwork",
     "SingleStubOpen", "SingleStubShort", "QuarterWave"}

\* QString(fmt).arg(...)...: the formatted text, kept as the call
MLabel(fmt, args) == [fmt |-> fmt, args |-> args]

MatchingElement(type, connection, value, label) ==
    [type |-> type, connection |-> connection, value |-> value,
     label |-> label]

\* a MatchingSolution as every solver fills it: frequency, sourceZ, loadZ
\* from the calculator, valid = true
MatchingSolution(c, topology, elements, description) ==
    [topology    |-> topology,
     elements    |-> elements,
     frequency   |-> c.m_frequency,
     sourceZ     |-> c.m_sourceZ,
     loadZ       |-> c.m_loadZ,
     valid       |-> TRUE,
     description |-> description]

MatchingCalculatorDefault ==
    [m_sourceZ   |-> Complex(Int2Rat(50), Zero),
     m_loadZ     |-> Complex(Int2Rat(50), Zero),
     m_frequency |-> Int2Rat(1000000000),
     m_z0        |-> Int2Rat(50)]

reactanceToInductance(x, freq) ==
    IF RLe(freq, Zero) THEN Zero ELSE RDiv(x, TwoPiF(freq))

reactanceToCapacitance(x, freq) ==
    IF RLe(freq, Zero) \/ (IsFinite(x) /\ x.n = 0) THEN Zero
    ELSE RDiv(RNeg(One), RMul(TwoPiF(freq), x))

susceptanceToCapacitance(b, freq) ==
    IF RLe(freq, Zero) THEN Zero ELSE RDiv(b, TwoPiF(freq))

susceptanceToInductance(b, freq) ==
    IF RLe(freq, Zero) \/ (IsFinite(b) /\ b.n = 0) THEN Zero
    ELSE RDiv(RNeg(One), RMul(TwoPiF(freq), b))

createLSectionSolution(c, x_series, b_shunt, shuntFirst) ==
    LET shuntElem ==
            IF RGt(b_shunt, Zero)
            THEN MatchingElement("Capacitor", "Shunt",
                     susceptanceToCapacitance(b_shunt, c.m_frequency),
                     MLabel("", <<>>))
            ELSE MatchingElement("Inductor", "Shunt",
                     susceptanceToInductance(b_shunt, c.m_frequency),
                     MLabel("", <<>>))
        seriesElem ==
            IF RGt(x_series, Zero)
            THEN MatchingElement("Inductor", "Series",
                     reactanceToInductance(x_series, c.m_frequency),
                     MLabel("", <<>>))
            ELSE MatchingElement("Capacitor", "Series",
                     reactanceToCapacitance(x_series, c.m_frequency),
                     MLabel("", <<>>))
    IN  MatchingSolution(c,
            IF shuntFirst THEN "LSection" ELSE "LSection_Reversed",
            IF shuntFirst THEN <<shuntElem, seriesElem>>
                          ELSE <<seriesElem, shuntElem>>,
            "")

\* A faulty calculateLSection that, for Rs > Rl, divides Q by the load
\* resistance to get the shunt susceptance.
calculateLSectionLoadB(c) ==
    LET rs == c.m_sourceZ.re
        rl == c.m_loadZ.re
        xl == c.m_loadZ.im
        q  == Sqrt(RSub(RDiv(rs, rl), One))
    IN  IF RLe(rs, Zero) \/ RLe(rl, Zero) \/ ~RGt(rs, rl) THEN <<>>
        ELSE <<createLSectionSolution(c, RSub(RMul(q, rl), xl),
                                      RDiv(q, rl), TRUE),
               createLSectionSolution(c, RSub(RMul(RNeg(q), rl), xl),
                                      RDiv(RNeg(q), rl), TRUE)>>

calculateLSection(c) ==
    LET rs == c.m_sourceZ.re
        xs == c.m_sourceZ.im
        rl == c.m_loadZ.re
        xl == c.m_loadZ.im
    IN  IF RLe(rs, Zero) \/ RLe(rl, Zero) THEN <<>>
        ELSE IF RGt(rs, rl) THEN
            LET q  == Sqrt(RSub(RDiv(rs, rl), One))
                b1 == RDiv(q, rs)
                x1 == RSub(RMul(q, rl), xl)
                b2 == RDiv(RNeg(q), rs)
                x2 == RSub(RMul(RNeg(q), rl), xl)
            IN  <<createLSectionSolution(c, x1, b1, TRUE),
                  createLSectionSolution(c, x2, b2, TRUE)>>
        ELSE IF RLt(rs, rl) THEN
            LET q  == Sqrt(RSub(RDiv(rl, rs), One))
                x1 == RSub(RMul(q, rs), xs)
                b1 == RDiv(q, rl)
                x2 == RSub(RMul(RNeg(q), rs), xs)
                b2 == RDiv(RNeg(q), rl)
            IN  <<createLSectionSolution(c, x1, b1, FALSE),
                  createLSectionSolution(c, x2, b2, FALSE)>>
        ELSE IF ExceedsEps(RSub(xl, xs)) THEN
            LET xCancel == RNeg(RSub(xl, xs))
                elem ==
                    IF RGt(xCancel, Zero)
                    THEN MatchingElement("Inductor", "Series",
                             reactanceToInductance(xCancel, c.m_frequency),
                             MLabel("", <<>>))
                    ELSE MatchingElement("Capacitor", "Series",
                             reactanceToCapacitance(xCancel, c.m_frequency),
                             MLabel("", <<>>))
            IN  <<MatchingSolution(c, "LSection", <<elem>>, "")>>
        ELSE <<>>

\* a Pi network whose series element carries the source-side reactance only
calculatePiNetworkSourceArm(c, targetQ) ==
    LET rs == c.m_sourceZ.re
        rl == c.m_loadZ.re
    IN  IF RLe(rs, Zero) \/ RLe(rl, Zero) THEN <<>>
        ELSE
            LET rVirt  == RDiv(RMin(rs, rl), RAdd(One, RMul(targetQ, targetQ)))
                q1     == Sqrt(RSub(RDiv(rs, rVirt), One))
                b1     == RDiv(q1, rs)
                x1     == RMul(q1, rVirt)
                q2     == Sqrt(RSub(RDiv(rl, rVirt), One))
                b2     == RDiv(q2, rl)
                x2     == RMul(q2, rVirt)
                xTotal == x1
                c1 == MatchingElement("Capacitor", "Shunt",
                          susceptanceToCapacitance(b1, c.m_frequency),
                          MLabel("", <<>>))
                l  == MatchingElement("Inductor", "Series",
                          reactanceToInductance(xTotal, c.m_frequency),
                          MLabel("", <<>>))
                c2 == MatchingElement("Capacitor", "Shunt",
                          susceptanceToCapacitance(b2, c.m_frequency),
                          MLabel("", <<>>))
            IN  <<MatchingSolution(c, "PiNetwork", <<c1, l, c2>>, "")>>

calculatePiNetwork(c, targetQ) ==
    LET rs == c.m_sourceZ.re
        rl == c.m_loadZ.re
    IN  IF RLe(rs, Zero) \/ RLe(rl, Zero) THEN <<>>
        ELSE
            LET rVirt  == RDiv(RMin(rs, rl), RAdd(One, RMul(targetQ, targetQ)))
                q1     == Sqrt(RSub(RDiv(rs, rVirt), One))
                b1     == RDiv(q1, rs)
                x1     == RMul(q1, rVirt)
                q2     == Sqrt(RSub(RDiv(rl, rVirt), One))
                b2     == RDiv(q2, rl)
                x2     == RMul(q2, rVirt)
                xTotal == RAdd(x1, x2)
                c1 == MatchingElement("Capacitor", "Shunt",
                          susceptanceToCapacitance(b1, c.m_frequency),
                          MLabel("", <<>>))
                l  == MatchingElement("Inductor", "Series",
                          reactanceToInductance(xTotal, c.m_frequency),
                          MLabel("", <<>>))
                c2 == MatchingElement("Capacitor", "Shunt",
                          susceptanceToCapacitance(b2, c.m_frequency),
                          MLabel("", <<>>))
            IN  <<MatchingSolution(c, "PiNetwork", <<c1, l, c2>>, "")>>

calculateTNetwork(c, targetQ) ==
    LET rs == c.m_sourceZ.re
        rl == c.m_loadZ.re
    IN  IF RLe(rs, Zero) \/ RLe(rl, Zero) THEN <<>>
        ELSE
            LET rVirt  == RMul(RMax(rs, rl), RAdd(One, RMul(targetQ, targetQ)))
                q1     == Sqrt(RSub(RDiv(rVirt, rs), One))
                x1     == RMul(q1, rs)
                b      == RDiv(q1, rVirt)
                q2     == Sqrt(RSub(RDiv(rVirt, rl), One))
                x2     == RMul(q2, rl)
                b2     == RDiv(q2, rVirt)
                bTotal == RAdd(b, b2)
                l1 == MatchingElement("Inductor", "Series",
                          reactanceToInductance(x1, c.m_frequency),
                          MLabel("", <<>>))
                cc == MatchingElement("Capacitor", "Shunt",
                          susceptanceToCapacitance(bTotal, c.m_frequency),
                          MLabel("", <<>>))
                l2 == MatchingElement("Inductor", "Series",
                          reactanceToInductance(x2, c.m_frequency),
                          MLabel("", <<>>))
            IN  <<MatchingSolution(c, "TNetwork", <<l1, cc, l2>>, "")>>

\* a line length that is never raised by lambda / 2
StubLengthNotRaised(c, sign, arg) ==
    [sign           |-> sign,
     atanOf         |-> arg,
     frequency      |-> c.m_frequency,
     plusHalfLambda |-> FALSE]

\* A line length sign * atan(arg) / beta for beta = 2 * PI / lambda and
\* lambda = 3e8 / m_frequency, raised by lambda / 2 when it is negative.
\* The arctangent is kept as the call.  The length is negative when sign,
\* arg and the frequency multiply to a negative number; for an infinite arg
\* both signs give lambda / 4.
StubLength(c, sign, arg) ==
    [sign           |-> sign,
     atanOf         |-> arg,
     frequency      |-> c.m_frequency,
     plusHalfLambda |-> RLt(RMul(RMul(Int2Rat(sign), arg), c.m_frequency),
                            Zero)]

\* the two solutions pushed for one tan(beta * d) value t
StubSolutionsFor(c, yL, t) ==
    LET d      == StubLength(c, 1, t)
        jt     == Complex(Zero, t)
        y_in   == CDiv(CAdd(yL, jt), CAdd(COne, CMul(jt, yL)))
        B_stub == RNeg(y_in.im)
        l_open  == StubLength(c, 1, B_stub)
        l_short == StubLength(c, -1, RDiv(One, B_stub))
        line   == MatchingElement("TransmissionLine", "Series", d,
                      MLabel("TL: %1 mm", <<d>>))
    IN  <<MatchingSolution(c, "SingleStubOpen",
              <<line,
                MatchingElement("OpenStub", "Shunt", l_open,
                    MLabel("Open Stub: %1 mm", <<l_open>>))>>,
              MLabel("Open stub at d=%1mm, l=%2mm", <<d, l_open>>)),
          MatchingSolution(c, "SingleStubShort",
              <<line,
                MatchingElement("ShortStub", "Shunt", l_short,
                    MLabel("Short Stub: %1 mm", <<l_short>>))>>,
              MLabel("Short stub at d=%1mm, l=%2mm", <<d, l_short>>))>>

calculateSingleStub(c) ==
    LET yL == CDiv(COne, Complex(RDiv(c.m_loadZ.re, c.m_z0),
                                 RDiv(c.m_loadZ.im, c.m_z0)))
        g  == yL.re
        b  == yL.im
    IN  IF BelowEps(RSub(g, One)) /\ BelowEps(b) THEN <<>>
        ELSE IF ~RGt(g, Zero) THEN <<>>
        ELSE IF BelowEps(RSub(g, One)) THEN
            LET t1 == RDiv(RNeg(b), Int2Rat(2))
            IN  StubSolutionsFor(c, yL, t1) \o StubSolutionsFor(c, yL, t1)
        ELSE
            LET A     == RAdd(RMul(RSub(One, g), RSub(One, g)), RMul(b, b))
                B_val == RAdd(b, Sqrt(RDiv(RMul(g, A), g)))
                C_val == RSub(b, Sqrt(RDiv(RMul(g, A), g)))
                D     == RSub(g, One)
            IN  IF ExceedsEps(D)
                THEN StubSolutionsFor(c, yL, RDiv(B_val, D))
                     \o StubSolutionsFor(c, yL, RDiv(C_val, D))
                ELSE <<>>

\* a quarter-wave transformer that never cancels the load reactance
calculateQuarterWaveResistiveOnly(c) ==
    IF RGt(c.m_loadZ.re, Zero) /\ RGt(c.m_sourceZ.re, Zero) THEN
        LET Zqw == Sqrt(RMul(c.m_sourceZ.re, c.m_loadZ.re))
        IN  <<MatchingSolution(c, "QuarterWave",
                  <<MatchingElement("TransmissionLine", "Series", Zqw,
                        MLabel("lambda/4 TL: Z0=%1 ohm", <<Zqw>>))>>,
                  MLabel("Quarter-wave transformer Z0=%1 ohm", <<Zqw>>))>>
    ELSE <<>>

calculateQuarterWave(c) ==
    LET Rl == c.m_loadZ.re
        Xl == c.m_loadZ.im
        Rs == c.m_sourceZ.re
    IN  IF BelowEps(Xl) /\ RGt(Rl, Zero) /\ RGt(Rs, Zero) THEN
            LET Zqw == Sqrt(RMul(Rs, Rl))
            IN  <<MatchingSolution(c, "QuarterWave",
                      <<MatchingElement("TransmissionLine", "Series", Zqw,
                            MLabel("lambda/4 TL: Z0=%1 ohm, L=%2mm",
                                   <<Zqw, c.m_frequency>>))>>,
                      MLabel("Quarter-wave transformer Z0=%1 ohm", <<Zqw>>))>>
        ELSE IF RGt(Rl, Zero) THEN
            LET Xcancel == RNeg(Xl)
                Zqw     == Sqrt(RMul(Rs, Rl))
                elem1 ==
                    IF RGt(Xcancel, Zero)
                    THEN LET v == reactanceToInductance(Xcancel, c.m_frequency)
                         IN  MatchingElement("Inductor", "Series", v,
                                 MLabel("L: %1", <<v>>))
                    ELSE LET v == reactanceToCapacitance(Xcancel, c.m_frequency)
                         IN  MatchingElement("Capacitor", "Series", v,
                                 MLabel("C: %1", <<v>>))
                elem2 == MatchingElement("TransmissionLine", "Series", Zqw,
                             MLabel("lambda/4 TL: Z0=%1 ohm", <<Zqw>>))
            IN  <<MatchingSolution(c, "QuarterWave", <<elem1, elem2>>,
                      MLabel("lambda/4 transformer with reactance cancellation",
                             <<>>))>>
        ELSE <<>>

\* the default argument of calculatePiNetwork and calculateTNetwork
DefaultTargetQ == Int2Rat(2)

calculateAll(c) ==
    calculateLSection(c) \o calculatePiNetwork(c, DefaultTargetQ)
        \o calculateTNetwork(c, DefaultTargetQ)

---------------------------------------------------------------------------
(* smithmath.cpp, impedance.cpp: conversions                               *)

\* 1e12, the value returned in place of a division by (nearly) zero.  It
\* is larger than every integer of the model; it is a value of its own,
\* different from every rational and from NonFinite, and arithmetic on it
\* is not modelled.
Sentinel == [n |-> 1, d |-> 0]

\* std::abs(z) < 1e-12 for a complex z: no complex number of the model
\* other than 0 has a magnitude below 1e-12
CBelowEps(z) == BelowEps(z.re) /\ BelowEps(z.im)

\* z0 * (1 + gamma) / (1 - gamma) without the factor z0
gammaToImpedanceUnscaled(gamma, z0) ==
    IF CBelowEps(CSub(COne, gamma)) THEN Complex(Sentinel, Zero)
    ELSE CDiv(CAdd(COne, gamma), CSub(COne, gamma))

gammaToImpedance(gamma, z0) ==
    IF CBelowEps(CSub(COne, gamma)) THEN Complex(Sentinel, Zero)
    ELSE CDiv(CMul(CReal(z0), CAdd(COne, gamma)), CSub(COne, gamma))

admittanceToGamma(y, y0) == CDiv(CSub(CReal(y0), y), CAdd(CReal(y0), y))

gammaToAdmittance(gamma, y0) ==
    IF CBelowEps(CAdd(COne, gamma)) THEN Complex(Sentinel, Zero)
    ELSE CDiv(CMul(CReal(y0), CSub(COne, gamma)), CAdd(COne, gamma))

normalizedZToGamma(zn) == CDiv(CSub(zn, COne), CAdd(zn, COne))

gammaToNormalizedZ(gamma) ==
    IF CBelowEps(CSub(COne, gamma)) THEN Complex(Sentinel, Zero)
    ELSE CDiv(CAdd(COne, gamma), CSub(COne, gamma))

\* Impedance::toAdmittance of an Impedance holding value
toAdmittance(value) ==
    IF CBelowEps(value) THEN Complex(Sentinel, Zero)
    ELSE CDiv(COne, value)

\* Admittance::toImpedance of an Admittance holding value
toImpedance(value) ==
    IF CBelowEps(value) THEN Complex(Sentinel, Zero)
    ELSE CDiv(COne, value)

\* 1e6, the VSWR of total reflection
VSWRSentinel == Int2Rat(1000000)

\* a VSWR computed as (1 - m) / (1 + m)
gammaToVSWRInverted(gammaMag) ==
    IF RGe(gammaMag, One) THEN VSWRSentinel
    ELSE LET m == IF RLt(gammaMag, Zero) THEN Zero ELSE gammaMag
         IN  RDiv(RSub(One, m), RAdd(One, m))

gammaToVSWR(gammaMag) ==
    IF RGe(gammaMag, One) THEN VSWRSentinel
    ELSE LET m == IF RLt(gammaMag, Zero) THEN Zero ELSE gammaMag
         IN  RDiv(RAdd(One, m), RSub(One, m))

vswrToGamma(vswr) ==
    LET v == IF RLt(vswr, One) THEN One ELSE vswr
    IN  RDiv(RSub(v, One), RAdd(v, One))

---------------------------------------------------------------------------
(* smithmath.h / matching.cpp: ComponentValue, ComponentCalculator         *)

\* double frequency = 1e9
DefaultComponentFrequency == Int2Rat(1000000000)

ComponentValue(type, value, frequency) ==
    [type |-> type, value |-> value, frequency |-> frequency]

\* ComponentValue() = default
ComponentValueDefault == ComponentValue("None", Zero, DefaultComponentFrequency)

TWO_PI == RMul(Int2Rat(2), PI)

\* freq_hz < 1e-12: no frequency of the model lies in (0, 1e-12)
FreqBelowEps(freq_hz) == RLe(freq_hz, Zero)

calculateResistance(r) == ComponentValue("Resistor", r, Zero)

calculateInductance(x, freq_hz) ==
    IF FreqBelowEps(freq_hz)
    THEN ComponentValue("Inductor", Zero, freq_hz)
    ELSE ComponentValue("Inductor", RDiv(x, RMul(TWO_PI, freq_hz)), freq_hz)

calculateCapacitance(x, freq_hz) ==
    IF FreqBelowEps(freq_hz) \/ BelowEps(x)
    THEN ComponentValue("Capacitor", Zero, freq_hz)
    ELSE ComponentValue("Capacitor",
             RDiv(RNeg(One), RMul(RMul(TWO_PI, freq_hz), x)), freq_hz)

\* every classification that answers None
calculateSeriesComponentNone(z_current, z_target, freq_hz) ==
    ComponentValueDefault

calculateSeriesComponent(z_current, z_target, freq_hz) ==
    LET deltaX == RSub(z_target.im, z_current.im)
    IN  IF BelowEps(deltaX) THEN ComponentValueDefault
        ELSE IF RGt(deltaX, Zero) THEN calculateInductance(deltaX, freq_hz)
        ELSE calculateCapacitance(deltaX, freq_hz)

calculateShuntComponent(y_current, y_target, freq_hz) ==
    LET deltaB == RSub(y_target.im, y_current.im)
    IN  IF BelowEps(deltaB) THEN ComponentValueDefault
        ELSE IF RGt(deltaB, Zero)
        THEN ComponentValue("Capacitor",
                 RDiv(RDiv(deltaB, TWO_PI), freq_hz), freq_hz)
        ELSE ComponentValue("Inductor",
                 RDiv(RNeg(One), RMul(RMul(TWO_PI, freq_hz), deltaB)),
                 freq_hz)

\* a calculateFromImpedance that answers a pure resistance with no
\* component
calculateFromImpedanceNone(z, freq_hz) ==
    LET x == z.im
    IN  IF BelowEps(x) THEN ComponentValueDefault
        ELSE IF RGt(x, Zero) THEN calculateInductance(x, freq_hz)
        ELSE calculateCapacitance(x, freq_hz)

calculateFromImpedance(z, freq_hz) ==
    LET x == z.im
    IN  IF BelowEps(x) THEN calculateResistance(z.re)
        ELSE IF RGt(x, Zero) THEN calculateInductance(x, freq_hz)
        ELSE calculateCapacitance(x, freq_hz)

typeFromReactance(x) ==
    IF BelowEps(x) THEN "None"
    ELSE IF RGt(x, Zero) THEN "Inductor"
    ELSE "Capacitor"

typeFromSusceptance(b) ==
    IF BelowEps(b) THEN "None"
    ELSE IF RGt(b, Zero) THEN "Capacitor"
    ELSE "Inductor"

\* a record of one call of a static function
Call(fn, args, result) == [fn |-> fn, args |-> args, result |-> result]

\* no static function has been called
NoCall == Call("", <<>>, <<>>)

---------------------------------------------------------------------------
(* smithchartwidget.cpp, mainwindow.cpp: select-point add mode             *)

InteractionMode == {"Normal", "AddElement", "DragEdit"}

\* The members of SmithChartWidget that a mouse press reads or writes, and
\* CircuitView::m_elements.  The widget's copy of the trace is the trace of
\* the main window (updateTraces ends every handler that changes it).
WindowInit ==
    [m_interactionMode   |-> "Normal",
     m_pendingType       |-> "None",
     m_pendingConnection |-> "Series",
     m_hasPendingElement |-> FALSE,
     m_markerGamma       |-> Complex(Zero, Zero),
     m_markerVisible     |-> FALSE,
     m_isDragging        |-> FALSE,
     m_dragSegmentIndex  |-> -1,
     m_elements          |-> <<>>]

setPendingElementType(w, type, conn) ==
    [w EXCEPT !.m_pendingType = type,
              !.m_pendingConnection = conn,
              !.m_hasPendingElement = TRUE,
              !.m_interactionMode = "AddElement"]

cancelPendingElement(w) ==
    [w EXCEPT !.m_hasPendingElement = FALSE,
              !.m_pendingType = "None",
              !.m_interactionMode = "Normal"]

\* std::abs(gamma) <= 1.0
isInsideUnitCircle(gamma) ==
    RLe(RAdd(RMul(gamma.re, gamma.re), RMul(gamma.im, gamma.im)), One)

\* The index of the first non-empty segment whose end point is under the
\* mouse, -1 when there is none.  The mouse is on a handle when the gamma
\* of the click is the gamma of the end point (DRAG_HIT_RADIUS is a few
\* pixels).
hitTestTraceEndpoint(t, gamma) ==
    LET hits == {i \in 1..Len(t.m_segments) :
                    /\ t.m_segments[i].points # <<>>
                    /\ Gamma(endPoint(t.m_segments[i])) = gamma}
    IN  IF hits = {} THEN -1
        ELSE (CHOOSE i \in hits : \A j \in hits : i <= j) - 1

\* CircuitView::addElement
addElement(w, type, conn, value) ==
    [w EXCEPT !.m_elements =
        Append(@, [type |-> type, connection |-> conn, value |-> value])]

\* The answer of QInputDialog::getDouble: ok and the number typed.
DialogAnswer(ok, value) == [ok |-> ok, value |-> value]

\* value * 1e-9 (nH to H), value * 1e-12 (pF to F), ohms as they are
baseValueOf(type, value) ==
    IF type = "Resistor" THEN value
    ELSE IF type = "Inductor" THEN RMul(value, Rat(1, 1000000000))
    ELSE RMul(RMul(value, Rat(1, 1000000)), Rat(1, 1000000))

\* MainWindow::addMatchingElement: the window and the trace it leaves.
\* freq and z0 are read from the component panel, answer from the dialog.
addMatchingElement(w, t, type, conn, freq, z0, answer) ==
    LET t1 == setZ0(setFrequency(t, freq), z0)
    IN  IF type \notin {"Resistor", "Inductor", "Capacitor"} \/ ~answer.ok
        THEN [window |-> w, trace |-> t1]
        ELSE LET baseValue == baseValueOf(type, answer.value)
                 seg == IF conn = "Series"
                        THEN calculateSeriesElement(t1, type, baseValue)
                        ELSE calculateShuntElement(t1, type, baseValue)
             IN  [window |-> addElement(w, type, conn, baseValue),
                  trace  |-> addSegment(t1, seg)]

\* The element value MainWindow::onTargetPointSelected computes to reach z
\* from the current impedance: validElement and value.
targetElementValue(t, z, type, conn, freq) ==
    LET currentZ == currentImpedance(t)
        omega    == RMul(RMul(Int2Rat(2), PI), freq)
        Valid(v)   == [validElement |-> TRUE, value |-> v]
        Invalid    == [validElement |-> FALSE, value |-> Zero]
    IN  IF conn = "Series" THEN
            LET deltaX == RSub(z.im, currentZ.im)
            IN  IF type = "Inductor" THEN
                    IF RGt(deltaX, Zero) THEN Valid(RDiv(deltaX, omega))
                    ELSE Invalid
                ELSE IF type = "Capacitor" THEN
                    IF RLt(deltaX, Zero)
                    THEN Valid(RDiv(RNeg(One), RMul(omega, deltaX)))
                    ELSE Invalid
                ELSE IF type = "Resistor" THEN
                    LET v == RSub(z.re, currentZ.re)
                    IN  [validElement |-> ~RLt(v, Zero), value |-> v]
                ELSE Invalid
        ELSE
            LET currentY == CDiv(COne, currentZ)
                targetY  == CDiv(COne, z)
                deltaB   == RSub(targetY.im, currentY.im)
            IN  IF type = "Capacitor" THEN
                    IF RGt(deltaB, Zero) THEN Valid(RDiv(deltaB, omega))
                    ELSE Invalid
                ELSE IF type = "Inductor" THEN
                    IF RLt(deltaB, Zero)
                    THEN Valid(RDiv(RNeg(One), RMul(omega, deltaB)))
                    ELSE Invalid
                ELSE IF type = "Resistor" THEN
                    LET v == RDiv(One, RSub(targetY.re, currentY.re))
                    IN  [validElement |-> ~RLt(v, Zero), value |-> v]
                ELSE Invalid

\* MainWindow::onTargetPointSelected
onTargetPointSelected(w, t, z, type, conn, freq, z0, answer) ==
    LET target == targetElementValue(t, z, type, conn, freq)
    IN  IF target.validElement /\ RGt(target.value, Zero)
        THEN addMatchingElement(w, t, type, conn, freq, z0, answer)
        ELSE [window |-> w, trace |-> t]

\* SmithChartWidget::mousePressEvent, left button, at the point gamma of
\* the chart of reference impedance z0
mousePressEventLeft(w, t, gamma, freq, z0, answer) ==
    LET hitSegment == hitTestTraceEndpoint(t, gamma)
    IN  IF hitSegment >= 0 /\ numSegments(t) > 0 THEN
            [window |-> [w EXCEPT !.m_isDragging = TRUE,
                                  !.m_dragSegmentIndex = hitSegment],
             trace  |-> t]
        ELSE IF ~isInsideUnitCircle(gamma) THEN [window |-> w, trace |-> t]
        ELSE IF w.m_interactionMode = "AddElement" /\ w.m_hasPendingElement
        THEN LET r == onTargetPointSelected(w, t, gammaToImpedance(gamma, z0),
                          w.m_pendingType, w.m_pendingConnection, freq, z0,
                          answer)
             IN  [window |-> cancelPendingElement(r.window),
                  trace  |-> r.trace]
        ELSE [window |-> [w EXCEPT !.m_markerGamma = gamma,
                                   !.m_markerVisible = TRUE],
              trace  |-> t]

\* SmithChartWidget::mousePressEvent, right button
mousePressEventRight(w) ==
    IF w.m_isDragging
    THEN [w EXCEPT !.m_isDragging = FALSE, !.m_dragSegmentIndex = -1]
    ELSE IF w.m_hasPendingElement THEN cancelPendingElement(w)
    ELSE w

---------------------------------------------------------------------------
(* circuitview.cpp and mainwindow.cpp: the editing handlers of the main    *)
(* window.  Each gives the window (circuit view included) and the trace it *)
(* leaves.                                                                 *)

\* CircuitView::removeLastElement
removeLastElement(w) ==
    IF w.m_elements # <<>>
    THEN [w EXCEPT !.m_elements = SubSeq(@, 1, Len(@) - 1)]
    ELSE w

\* CircuitView::clearElements
clearElements(w) == [w EXCEPT !.m_elements = <<>>]

\* CircuitView::updateElementValue
updateElementValue(w, index, newValue) ==
    IF index >= 0 /\ index < Len(w.m_elements)
    THEN [w EXCEPT !.m_elements[index + 1].value = newValue]
    ELSE w

\* MainWindow::onRemoveLastElement
onRemoveLastElement(w, t) ==
    IF numSegments(t) > 0
    THEN [window |-> removeLastElement(w), trace |-> removeLastSegment(t)]
    ELSE [window |-> w, trace |-> t]

\* MainWindow::onClearElements
onClearElements(w, t) == [window |-> clearElements(w), trace |-> clear(t)]

\* the loop of onApplyMatchingSolution over solution.elements, from
\* element k on
RECURSIVE ApplyElements(_, _, _, _)
ApplyElements(r, solution, z0, k) ==
    IF k > Len(solution.elements) THEN r
    ELSE LET elem == solution.elements[k]
             t1   == setZ0(setFrequency(r.trace, solution.frequency), z0)
             seg  == IF elem.connection = "Series"
                     THEN calculateSeriesElement(t1, elem.type, elem.value)
                     ELSE calculateShuntElement(t1, elem.type, elem.value)
         IN  ApplyElements(
                 [window |-> addElement(r.window, elem.type, elem.connection,
                                        elem.value),
                  trace  |-> addSegment(t1, seg)],
                 solution, z0, k + 1)

\* MainWindow::onApplyMatchingSolution; z0 is read from the component panel
onApplyMatchingSolution(w, t, solution, z0) ==
    ApplyElements(onClearElements(w, t), solution, z0, 1)

\* MainWindow::onElementValueDragged
onElementValueDragged(w, t, segmentIndex, newValue) ==
    IF segmentIndex < 0 \/ segmentIndex >= numSegments(t)
    THEN [window |-> w, trace |-> t]
    ELSE [window |-> updateElementValue(w, segmentIndex, newValue),
          trace  |-> updateSegmentValue(t, segmentIndex, newValue)]

\* the previewRequested signals of the edit dialog, in order: each calls
\* updateSegmentValue(idx, newValue) with the dialog's component index
RECURSIVE Previews(_, _, _)
Previews(t, index, values) ==
    IF values = <<>> THEN t
    ELSE Previews(updateSegmentValue(t, index, Head(values)), index,
                  Tail(values))

\* MainWindow::onCircuitElementDoubleClicked with the dialog's run: the
\* values previewed while it was open, whether it was accepted, and the
\* value it held then.  seg is a reference to the segment in the trace, so
\* seg.componentValue read after the dialog is the value the segment has
\* then.
onCircuitElementDoubleClicked(w, t, index, previews, accepted, newValue) ==
    IF index < 0 \/ index >= numSegments(t) THEN [window |-> w, trace |-> t]
    ELSE LET t1 == Previews(t, index, previews)
         IN  IF accepted
             THEN [window |-> updateElementValue(w, index, newValue),
                   trace  |-> updateSegmentValue(t1, index, newValue)]
             ELSE [window |-> w,
                   trace  |-> updateSegmentValue(t1, index,
                                  segment(t1, index).componentValue)]

\* the loop of onDeleteElement over the segments stored in remaining, from
\* position k on
RECURSIVE ReAddRemaining(_, _, _)
ReAddRemaining(r, remaining, k) ==
    IF k > Len(remaining) THEN r
    ELSE LET seg == remaining[k]
             new == IF seg.connectionType = "Series"
                    THEN calculateSeriesElement(r.trace, seg.componentType,
                                                seg.componentValue)
                    ELSE calculateShuntElement(r.trace, seg.componentType,
                                               seg.componentValue)
         IN  ReAddRemaining(
                 [window |-> addElement(r.window, seg.componentType,
                                        seg.connectionType,
                                        seg.componentValue),
                  trace  |-> addSegment(r.trace, new)],
                 remaining, k + 1)

\* MainWindow::onDeleteElement; yes is the answer to the question box
onDeleteElement(w, t, index, yes) ==
    IF index < 0 \/ index >= numSegments(t) \/ ~yes
    THEN [window |-> w, trace |-> t]
    ELSE IF index = numSegments(t) - 1
    THEN [window |-> removeLastElement(w), trace |-> removeLastSegment(t)]
    ELSE LET remaining == SubSeq(t.m_segments, index + 2, Len(t.m_segments))
             cut == [t EXCEPT !.m_segments = SubSeq(@, 1, index)]
         IN  ReAddRemaining([window |-> clearElements(w), trace |-> cut],
                            remaining, 1)

---------------------------------------------------------------------------
(* Bounds and inputs of the trace state machine.                           *)

\* the longest chain of segments
MaxSegs == 2

\* the number of parameter setter calls on the trace in one behaviour
MaxSetterCalls == 1

\* frequencies in Hz: 7/22 Hz and 7/44 Hz, for which 2*PI*f is 2 and 1
FreqInit == Rat(7, 22)

Z0Init == One

SourceInit == Complex(One, Zero)

\* the values offered to setFrequency, setZ0 and setSourceImpedance
FreqSet == {Rat(7, 44)}

Z0Set == {Int2Rat(2)}

SourceSet == {Complex(Int2Rat(2), Zero)}

\* loads in ohms: 1 + j1 and a short circuit (0 + j0, resistance below the
\* arc floor)
LoadSet == {Complex(One, One), Complex(Zero, Zero)}

\* component values in base units (ohm, henry, farad) offered to add
ElementInputs ==
    {<<"Inductor", One>>, <<"Capacitor", One>>, <<"Resistor", One>>,
     <<"TransmissionLine", One>>}

\* new values offered to updateSegmentValue
UpdateValues == {Int2Rat(2)}

\* indices offered to updateSegmentValue and segment, in and out of range
IndexSet == -1..MaxSegs

\* the last call made and the index (or target Q) it was given
Op(name, index) == [op |-> name, index |-> index]

---------------------------------------------------------------------------
(* The trace state machine.  Init is a MatchingTrace after construction    *)
(* and the setter calls that gave it its parameters.                       *)

InitTrace ==
    \E zl \in LoadSet :
       trace = [m_sourceZ   |-> SourceInit,
                m_loadZ     |-> zl,
                m_z0        |-> Z0Init,
                m_frequency |-> FreqInit,
                m_segments  |-> <<>>]

\* addSegment(calculateSeriesElement(type, value))
AddSeriesElement ==
    /\ Len(trace.m_segments) < MaxSegs
    /\ \E e \in ElementInputs :
          trace' = addSegment(trace, calculateSeriesElement(trace, e[1], e[2]))
    /\ lastOp' = Op("addSeriesElement", Len(trace.m_segments))
    /\ UNCHANGED <<window, call, calc, solutions, setterCalls>>

\* addSegment(calculateShuntElement(type, value))
AddShuntElement ==
    /\ Len(trace.m_segments) < MaxSegs
    /\ \E e \in ElementInputs :
          trace' = addSegment(trace, calculateShuntElement(trace, e[1], e[2]))
    /\ lastOp' = Op("addShuntElement", Len(trace.m_segments))
    /\ UNCHANGED <<window, call, calc, solutions, setterCalls>>

RemoveLastSegment ==
    /\ trace' = removeLastSegment(trace)
    /\ lastOp' = Op("removeLastSegment", 0)
    /\ UNCHANGED <<window, call, calc, solutions, setterCalls>>

Clear ==
    /\ trace' = clear(trace)
    /\ lastOp' = Op("clear", 0)
    /\ UNCHANGED <<window, call, calc, solutions, setterCalls>>

UpdateSegmentValue ==
    /\ \E index \in IndexSet, v \in UpdateValues :
          /\ trace' = updateSegmentValue(trace, index, v)
          /\ lastOp' = Op("updateSegmentValue", index)
    /\ UNCHANGED <<window, call, calc, solutions, setterCalls>>

NextEdit ==
    \/ AddSeriesElement
    \/ AddShuntElement
    \/ RemoveLastSegment
    \/ Clear
    \/ UpdateSegmentValue

SetSourceImpedance ==
    /\ setterCalls < MaxSetterCalls
    /\ \E zs \in SourceSet : trace' = setSourceImpedance(trace, zs)
    /\ setterCalls' = setterCalls + 1
    /\ lastOp' = Op("setSourceImpedance", 0)
    /\ UNCHANGED <<window, call, calc, solutions>>

SetLoadImpedance ==
    /\ setterCalls < MaxSetterCalls
    /\ \E zl \in LoadSet : trace' = setLoadImpedance(trace, zl)
    /\ setterCalls' = setterCalls + 1
    /\ lastOp' = Op("setLoadImpedance", 0)
    /\ UNCHANGED <<window, call, calc, solutions>>

SetZ0 ==
    /\ setterCalls < MaxSetterCalls
    /\ \E z0 \in Z0Set : trace' = setZ0(trace, z0)
    /\ setterCalls' = setterCalls + 1
    /\ lastOp' = Op("setZ0", 0)
    /\ UNCHANGED <<window, call, calc, solutions>>

SetFrequency ==
    /\ setterCalls < MaxSetterCalls
    /\ \E f \in FreqSet : trace' = setFrequency(trace, f)
    /\ setterCalls' = setterCalls + 1
    /\ lastOp' = Op("setFrequency", 0)
    /\ UNCHANGED <<window, call, calc, solutions>>

Init ==
    /\ InitTrace
    /\ calc = [MatchingCalculatorDefault EXCEPT !.m_frequency = FreqInit]
    /\ solutions = <<>>
    /\ setterCalls = 0
    /\ lastOp = Op("MatchingTrace", 0)
    /\ call = NoCall
    /\ window = WindowInit

Next ==
    \/ AddSeriesElement
    \/ AddShuntElement
    \/ RemoveLastSegment
    \/ Clear
    \/ UpdateSegmentValue
    \/ SetSourceImpedance
    \/ SetLoadImpedance
    \/ SetZ0
    \/ SetFrequency

\* the trace under its edit API alone, parameters fixed
SpecEdit == Init /\ [][NextEdit]_vars

\* the trace under its edit API and its parameter setters
Spec == Init /\ [][Next]_vars

---------------------------------------------------------------------------
(* The trace grown past the length of the colour palette.  The elements    *)
(* are a series inductor, whose arc needs no inversion, and a shunt open   *)
(* stub, for which the switch computes no points.                          *)

\* the longest chain of segments: one more than the palette has colours
PaletteSegs == 9

\* the elements offered to calculateSeriesElement and calculateShuntElement
LongSeriesInputs == {<<"Inductor", One>>}

LongShuntInputs == {<<"OpenStub", One>>}

\* addSegment(calculateSeriesElement(type, value))
AddSeriesElementLong ==
    /\ Len(trace.m_segments) < PaletteSegs
    /\ \E e \in LongSeriesInputs :
          trace' = addSegment(trace, calculateSeriesElement(trace, e[1], e[2]))
    /\ lastOp' = Op("addSeriesElement", Len(trace.m_segments))
    /\ UNCHANGED <<window, call, calc, solutions, setterCalls>>

\* addSegment(calculateShuntElement(type, value))
AddShuntElementLong ==
    /\ Len(trace.m_segments) < PaletteSegs
    /\ \E e \in LongShuntInputs :
          trace' = addSegment(trace, calculateShuntElement(trace, e[1], e[2]))
    /\ lastOp' = Op("addShuntElement", Len(trace.m_segments))
    /\ UNCHANGED <<window, call, calc, solutions, setterCalls>>

\* updateSegmentValue of the first segment, which recomputes every segment
\* after it
UpdateSegmentValueLong ==
    /\ \E v \in UpdateValues : trace' = updateSegmentValue(trace, 0, v)
    /\ lastOp' = Op("updateSegmentValue", 0)
    /\ UNCHANGED <<window, call, calc, solutions, setterCalls>>

InitLong ==
    /\ trace = [m_sourceZ   |-> SourceInit,
                m_loadZ     |-> Complex(One, One),
                m_z0        |-> Z0Init,
                m_frequency |-> FreqInit,
                m_segments  |-> <<>>]
    /\ calc = [MatchingCalculatorDefault EXCEPT !.m_frequency = FreqInit]
    /\ solutions = <<>>
    /\ setterCalls = 0
    /\ lastOp = Op("MatchingTrace", 0)
    /\ call = NoCall
    /\ window = WindowInit

NextLong ==
    \/ AddSeriesElementLong
    \/ AddShuntElementLong
    \/ RemoveLastSegment
    \/ Clear
    \/ UpdateSegmentValueLong

SpecLong == InitLong /\ [][NextLong]_vars

---------------------------------------------------------------------------
(* The calculator: constructed, given its four parameters by its setters,  *)
(* then asked for solutions.  Every solver is const.                       *)

\* source impedances in ohms
CalcSourceSet ==
    {Complex(Int2Rat(50), Zero), Complex(Int2Rat(100), Zero),
     Complex(Int2Rat(50), Int2Rat(50)),
     Complex(Zero, Zero), Complex(Int2Rat(-50), Zero)}

\* load impedances in ohms; 25 - j25 has the normalized admittance 1 + j1
\* for Z0 = 50
CalcLoadSet ==
    {Complex(Int2Rat(50), Zero), Complex(Int2Rat(100), Zero),
     Complex(Int2Rat(200), Zero),
     Complex(Int2Rat(100), Int2Rat(50)), Complex(Int2Rat(50), Int2Rat(-50)),
     Complex(Int2Rat(25), Int2Rat(-25)),
     Complex(Zero, Zero), Complex(Int2Rat(-50), Zero)}

CalcZ0Set == {Int2Rat(50), Int2Rat(100)}

CalcFreqSet == {Rat(7, 22), Rat(7, 44)}

\* target Q offered to calculatePiNetwork and calculateTNetwork
TargetQs == {0, 2}

InitCalc ==
    /\ \E zs \in CalcSourceSet, zl \in CalcLoadSet, f \in CalcFreqSet,
          z0 \in CalcZ0Set :
          calc = [m_sourceZ |-> zs, m_loadZ |-> zl, m_frequency |-> f,
                  m_z0 |-> z0]
    /\ trace = [m_sourceZ   |-> SourceInit,
                m_loadZ     |-> Complex(One, One),
                m_z0        |-> Z0Init,
                m_frequency |-> FreqInit,
                m_segments  |-> <<>>]
    /\ solutions = <<>>
    /\ setterCalls = 0
    /\ lastOp = Op("MatchingCalculator", 0)
    /\ call = NoCall
    /\ window = WindowInit

CalculateLSection ==
    /\ solutions' = calculateLSection(calc)
    /\ lastOp' = Op("calculateLSection", 0)
    /\ UNCHANGED <<window, call, trace, calc, setterCalls>>

CalculatePiNetwork ==
    /\ \E q \in TargetQs :
          /\ solutions' = calculatePiNetwork(calc, Int2Rat(q))
          /\ lastOp' = Op("calculatePiNetwork", q)
    /\ UNCHANGED <<window, call, trace, calc, setterCalls>>

CalculateTNetwork ==
    /\ \E q \in TargetQs :
          /\ solutions' = calculateTNetwork(calc, Int2Rat(q))
          /\ lastOp' = Op("calculateTNetwork", q)
    /\ UNCHANGED <<window, call, trace, calc, setterCalls>>

CalculateSingleStub ==
    /\ solutions' = calculateSingleStub(calc)
    /\ lastOp' = Op("calculateSingleStub", 0)
    /\ UNCHANGED <<window, call, trace, calc, setterCalls>>

CalculateQuarterWave ==
    /\ solutions' = calculateQuarterWave(calc)
    /\ lastOp' = Op("calculateQuarterWave", 0)
    /\ UNCHANGED <<window, call, trace, calc, setterCalls>>

CalculateAll ==
    /\ solutions' = calculateAll(calc)
    /\ lastOp' = Op("calculateAll", 0)
    /\ UNCHANGED <<window, call, trace, calc, setterCalls>>

NextCalc ==
    \/ CalculateLSection
    \/ CalculatePiNetwork
    \/ CalculateTNetwork
    \/ CalculateSingleStub
    \/ CalculateQuarterWave
    \/ CalculateAll

SpecCalc == InitCalc /\ [][NextCalc]_vars

---------------------------------------------------------------------------
(* The ComponentCalculator: static functions of their arguments.           *)

\* reactances and susceptances handed to the calculator
CompReactances == {Int2Rat(-2), Int2Rat(-1), Zero, One, Int2Rat(2)}

\* frequencies in Hz, the ones that are not positive included
CompFreqs == {Rat(7, 22), Rat(7, 44), Zero, Rat(-7, 22)}

\* current and target impedances (admittances)
CompPoints ==
    {Complex(One, Zero), Complex(One, One), Complex(Int2Rat(2), Int2Rat(-1)),
     Complex(Zero, Int2Rat(2))}

InitComp ==
    /\ InitTrace
    /\ calc = [MatchingCalculatorDefault EXCEPT !.m_frequency = FreqInit]
    /\ solutions = <<>>
    /\ setterCalls = 0
    /\ lastOp = Op("ComponentCalculator", 0)
    /\ call = NoCall
    /\ window = WindowInit

CalculateInductance ==
    /\ \E x \in CompReactances, f \in CompFreqs :
          call' = Call("calculateInductance", <<x, f>>,
                       calculateInductance(x, f))
    /\ lastOp' = Op("calculateInductance", 0)
    /\ UNCHANGED <<window, trace, calc, solutions, setterCalls>>

CalculateCapacitance ==
    /\ \E x \in CompReactances, f \in CompFreqs :
          call' = Call("calculateCapacitance", <<x, f>>,
                       calculateCapacitance(x, f))
    /\ lastOp' = Op("calculateCapacitance", 0)
    /\ UNCHANGED <<window, trace, calc, solutions, setterCalls>>

CalculateSeriesComponent ==
    /\ \E zc \in CompPoints, zt \in CompPoints, f \in CompFreqs :
          call' = Call("calculateSeriesComponent", <<zc, zt, f>>,
                       calculateSeriesComponent(zc, zt, f))
    /\ lastOp' = Op("calculateSeriesComponent", 0)
    /\ UNCHANGED <<window, trace, calc, solutions, setterCalls>>

CalculateShuntComponent ==
    /\ \E yc \in CompPoints, yt \in CompPoints, f \in CompFreqs :
          call' = Call("calculateShuntComponent", <<yc, yt, f>>,
                       calculateShuntComponent(yc, yt, f))
    /\ lastOp' = Op("calculateShuntComponent", 0)
    /\ UNCHANGED <<window, trace, calc, solutions, setterCalls>>

CalculateFromImpedance ==
    /\ \E z \in CompPoints, f \in CompFreqs :
          call' = Call("calculateFromImpedance", <<z, f>>,
                       calculateFromImpedance(z, f))
    /\ lastOp' = Op("calculateFromImpedance", 0)
    /\ UNCHANGED <<window, trace, calc, solutions, setterCalls>>

TypeFromReactance ==
    /\ \E x \in CompReactances :
          call' = Call("typeFromReactance", <<x>>, typeFromReactance(x))
    /\ lastOp' = Op("typeFromReactance", 0)
    /\ UNCHANGED <<window, trace, calc, solutions, setterCalls>>

TypeFromSusceptance ==
    /\ \E b \in CompReactances :
          call' = Call("typeFromSusceptance", <<b>>, typeFromSusceptance(b))
    /\ lastOp' = Op("typeFromSusceptance", 0)
    /\ UNCHANGED <<window, trace, calc, solutions, setterCalls>>

NextComp ==
    \/ CalculateInductance
    \/ CalculateCapacitance
    \/ CalculateSeriesComponent
    \/ CalculateShuntComponent
    \/ CalculateFromImpedance
    \/ TypeFromReactance
    \/ TypeFromSusceptance

SpecComp == InitComp /\ [][NextComp]_vars

---------------------------------------------------------------------------
(* SmithMath, Impedance and Admittance: conversions of their arguments.    *)

\* impedances in ohms: the resistance of some is zero or negative
MathImpedances ==
    {Complex(Zero, Zero), Complex(Int2Rat(50), Zero),
     Complex(Int2Rat(75), Int2Rat(50)), Complex(Int2Rat(25), Int2Rat(-50)),
     Complex(Zero, Int2Rat(50)), Complex(Int2Rat(-50), Zero),
     Complex(Int2Rat(-25), Int2Rat(50))}

\* reference impedances in ohms (reference admittances in siemens)
MathZ0s == {One, Int2Rat(50), Int2Rat(75)}

\* reflection coefficients: 1 and -1 are the poles of the conversions
MathGammas ==
    {Complex(Zero, Zero), Complex(One, Zero), Complex(Int2Rat(-1), Zero),
     Complex(Rat(1, 2), Zero), Complex(Zero, One),
     Complex(Rat(1, 5), Rat(-2, 5))}

\* values held by an Impedance or an Admittance
MathValues ==
    {Complex(Zero, Zero), Complex(Int2Rat(50), Zero), Complex(Zero, One),
     Complex(Int2Rat(3), Int2Rat(-4))}

\* magnitudes of a reflection coefficient, and values outside [0, 1)
MathMagnitudes ==
    {Rat(-1, 2), Zero, Rat(1, 10), Rat(1, 3), Rat(1, 2), Rat(9, 10), One,
     Int2Rat(2)}

\* standing wave ratios, and values below 1
MathVSWRs == {Zero, Rat(1, 2), One, Rat(3, 2), Int2Rat(2), Int2Rat(10)}

InitMath ==
    /\ InitTrace
    /\ calc = [MatchingCalculatorDefault EXCEPT !.m_frequency = FreqInit]
    /\ solutions = <<>>
    /\ setterCalls = 0
    /\ lastOp = Op("SmithMath", 0)
    /\ call = NoCall
    /\ window = WindowInit

\* call' is the call of fn on args with the result given
Called(fn, args, result) ==
    /\ call' = Call(fn, args, result)
    /\ lastOp' = Op(fn, 0)
    /\ UNCHANGED <<window, trace, calc, solutions, setterCalls>>

ImpedanceToGamma ==
    \E z \in MathImpedances, z0 \in MathZ0s :
        Called("impedanceToGamma", <<z, z0>>, impedanceToGamma(z, z0))

GammaToImpedance ==
    \E gamma \in MathGammas, z0 \in MathZ0s :
        Called("gammaToImpedance", <<gamma, z0>>, gammaToImpedance(gamma, z0))

\* gammaToImpedance(impedanceToGamma(z, z0), z0)
ImpedanceRoundTrip ==
    \E z \in MathImpedances, z0 \in MathZ0s :
        Called("gammaToImpedance(impedanceToGamma)", <<z, z0>>,
               gammaToImpedance(impedanceToGamma(z, z0), z0))

GammaToAdmittance ==
    \E gamma \in MathGammas, y0 \in MathZ0s :
        Called("gammaToAdmittance", <<gamma, y0>>,
               gammaToAdmittance(gamma, y0))

GammaToNormalizedZ ==
    \E gamma \in MathGammas :
        Called("gammaToNormalizedZ", <<gamma>>, gammaToNormalizedZ(gamma))

ToAdmittance ==
    \E value \in MathValues :
        Called("Impedance::toAdmittance", <<value>>, toAdmittance(value))

ToImpedance ==
    \E value \in MathValues :
        Called("Admittance::toImpedance", <<value>>, toImpedance(value))

GammaToVSWR ==
    \E m \in MathMagnitudes :
        Called("gammaToVSWR", <<m>>, gammaToVSWR(m))

VswrToGamma ==
    \E vswr \in MathVSWRs :
        Called("vswrToGamma", <<vswr>>, vswrToGamma(vswr))

\* vswrToGamma(gammaToVSWR(m))
VswrRoundTrip ==
    \E m \in MathMagnitudes :
        Called("vswrToGamma(gammaToVSWR)", <<m>>,
               vswrToGamma(gammaToVSWR(m)))

NextMath ==
    \/ ImpedanceToGamma
    \/ GammaToImpedance
    \/ ImpedanceRoundTrip
    \/ GammaToAdmittance
    \/ GammaToNormalizedZ
    \/ ToAdmittance
    \/ ToImpedance
    \/ GammaToVSWR
    \/ VswrToGamma
    \/ VswrRoundTrip

SpecMath == InitMath /\ [][NextMath]_vars

---------------------------------------------------------------------------
(* The main window in select-point add mode: the toolbar sets a pending    *)
(* element, a click on the chart adds it.                                  *)

\* the frequency of the component panel in Hz: 2*PI*f = 2e8
PanelFrequency == Rat(350000000, 11)

\* the reference impedance of the component panel and the chart in ohms
PanelZ0 == One

\* points of the chart under the mouse: the gammas of 1 + 2j, 1 - j and
\* 3 on Z0 = 1, and a point outside the unit circle
ChartPoints ==
    {Complex(Rat(1, 2), Rat(1, 2)), Complex(Rat(1, 5), Rat(-2, 5)),
     Complex(Rat(1, 2), Zero), Complex(Int2Rat(2), Zero)}

\* what the user answers to the dialog: Cancel, or a number of ohms, nH
\* or pF
DialogAnswers(type) ==
    {DialogAnswer(FALSE, Zero)} \cup
    (IF type = "Resistor" THEN {DialogAnswer(TRUE, One)}
     ELSE IF type = "Inductor" THEN {DialogAnswer(TRUE, Int2Rat(5))}
     ELSE IF type = "Capacitor" THEN {DialogAnswer(TRUE, Int2Rat(5000))}
     ELSE {})

InitWindow ==
    /\ trace = [m_sourceZ   |-> SourceInit,
                m_loadZ     |-> Complex(One, One),
                m_z0        |-> Z0Init,
                m_frequency |-> FreqInit,
                m_segments  |-> <<>>]
    /\ calc = [MatchingCalculatorDefault EXCEPT !.m_frequency = FreqInit]
    /\ solutions = <<>>
    /\ setterCalls = 0
    /\ lastOp = Op("MainWindow", 0)
    /\ call = NoCall
    /\ window = WindowInit

\* ElementToolbar::selectPointForElement
SelectPointForElement ==
    /\ \E type \in {"Resistor", "Inductor", "Capacitor"},
          conn \in ConnectionType :
          /\ window' = setPendingElementType(window, type, conn)
          /\ call' = Call("selectPointForElement", <<type, conn>>, <<>>)
    /\ lastOp' = Op("selectPointForElement", 0)
    /\ UNCHANGED <<trace, calc, solutions, setterCalls>>

\* A left click on the chart.  call records the point, the answer to the
\* dialog and the element value onTargetPointSelected computes for it.
MousePressLeft ==
    /\ Len(trace.m_segments) < MaxSegs
    /\ \E gamma \in ChartPoints, answer \in DialogAnswers(window.m_pendingType) :
          LET r == mousePressEventLeft(window, trace, gamma, PanelFrequency,
                                       PanelZ0, answer)
          IN  /\ window' = r.window
              /\ trace' = r.trace
              /\ call' = Call("mousePressEvent", <<gamma, answer>>,
                             targetElementValue(trace,
                                 gammaToImpedance(gamma, PanelZ0),
                                 window.m_pendingType,
                                 window.m_pendingConnection, PanelFrequency))
    /\ lastOp' = Op("mousePressEvent", 0)
    /\ UNCHANGED <<calc, solutions, setterCalls>>

MousePressRight ==
    /\ window' = mousePressEventRight(window)
    /\ call' = Call("mousePressEventRight", <<>>, <<>>)
    /\ lastOp' = Op("mousePressEventRight", 0)
    /\ UNCHANGED <<trace, calc, solutions, setterCalls>>

\* MainWindow::onClearElements
OnClearElements ==
    /\ trace' = clear(trace)
    /\ window' = [window EXCEPT !.m_elements = <<>>]
    /\ call' = Call("onClearElements", <<>>, <<>>)
    /\ lastOp' = Op("onClearElements", 0)
    /\ UNCHANGED <<calc, solutions, setterCalls>>

NextWindow ==
    \/ SelectPointForElement
    \/ MousePressLeft
    \/ MousePressRight
    \/ OnClearElements

SpecWindow == InitWindow /\ [][NextWindow]_vars

---------------------------------------------------------------------------
(* The main window as an editor of the matching network: the toolbar, the  *)
(* wizard, the drag handles of the chart and the context menu of the       *)
(* circuit view.  The component panel shows PanelFrequency and PanelZ0.    *)

\* the longest chain of segments the toolbar builds: a middle element has
\* one before it and one after it
MaxMainSegs == 3

\* the add buttons of the toolbar: onAddSeriesL, onAddShuntC
ToolbarButtons ==
    {<<"Inductor", "Series">>, <<"Capacitor", "Shunt">>}

\* the value a drag or the edit dialog gives an element of the type, in
\* base units: 10 nH, 10000 pF, 2 ohm
EditValues(type) ==
    IF type = "Resistor" THEN {Int2Rat(2)}
    ELSE IF type \in {"Inductor", "Capacitor"} THEN {Rat(1, 100000000)}
    ELSE {Zero}

\* the calculator of the matching wizard, set up from the main window
WizardCalculator(t, frequency, z0) ==
    [m_sourceZ   |-> t.m_sourceZ,
     m_loadZ     |-> t.m_loadZ,
     m_frequency |-> frequency,
     m_z0        |-> z0]

\* the solutions the wizard offers
WizardSolutions(t, frequency, z0) ==
    LET list == calculateLSection(WizardCalculator(t, frequency, z0))
    IN  {list[k] : k \in 1..Len(list)}

\* onAddSeriesL, onAddShuntC: addMatchingElement(type, conn)
AddMatchingElement ==
    /\ Len(trace.m_segments) < MaxMainSegs
    /\ \E b \in ToolbarButtons :
          \E answer \in DialogAnswers(b[1]) :
              LET r == addMatchingElement(window, trace, b[1], b[2],
                                          PanelFrequency, PanelZ0, answer)
              IN  /\ window' = r.window
                  /\ trace' = r.trace
                  /\ call' = Call("addMatchingElement", <<b[1], b[2]>>,
                                  <<answer.ok>>)
    /\ lastOp' = Op("addMatchingElement", Len(trace.m_segments))
    /\ UNCHANGED <<calc, solutions, setterCalls>>

OnRemoveLastElement ==
    /\ LET r == onRemoveLastElement(window, trace)
       IN  window' = r.window /\ trace' = r.trace
    /\ call' = Call("onRemoveLastElement", <<>>, <<>>)
    /\ lastOp' = Op("onRemoveLastElement", 0)
    /\ UNCHANGED <<calc, solutions, setterCalls>>

OnApplyMatchingSolution ==
    /\ \E solution \in WizardSolutions(trace, PanelFrequency, PanelZ0) :
          LET r == onApplyMatchingSolution(window, trace, solution, PanelZ0)
          IN  /\ window' = r.window
              /\ trace' = r.trace
              /\ call' = Call("onApplyMatchingSolution", <<solution>>, <<>>)
    /\ lastOp' = Op("onApplyMatchingSolution", 0)
    /\ UNCHANGED <<calc, solutions, setterCalls>>

OnElementValueDragged ==
    /\ \E index \in -1..MaxMainSegs :
          \E v \in EditValues(segment(trace, index).componentType) :
              LET r == onElementValueDragged(window, trace, index, v)
              IN  /\ window' = r.window
                  /\ trace' = r.trace
                  /\ call' = Call("onElementValueDragged", <<index, v>>, <<>>)
                  /\ lastOp' = Op("onElementValueDragged", index)
    /\ UNCHANGED <<calc, solutions, setterCalls>>

OnDeleteElement ==
    /\ \E index \in -1..MaxMainSegs, yes \in BOOLEAN :
          LET r == onDeleteElement(window, trace, index, yes)
          IN  /\ window' = r.window
              /\ trace' = r.trace
              /\ call' = Call("onDeleteElement", <<index, yes>>, <<>>)
              /\ lastOp' = Op("onDeleteElement", index)
    /\ UNCHANGED <<calc, solutions, setterCalls>>

\* the longest chain of segments on which the edit dialog is opened
MaxDialogSegs == 2

\* the edit dialog of element index: it previews the values in previews,
\* then is accepted with the value v or cancelled
OnCircuitElementDoubleClicked ==
    /\ Len(trace.m_segments) <= MaxDialogSegs
    /\ \E index \in -1..MaxMainSegs, accepted \in BOOLEAN :
          \E v \in EditValues(segment(trace, index).componentType) :
              \E previews \in {<<>>, <<v>>} :
                  LET r == onCircuitElementDoubleClicked(window, trace, index,
                               previews, accepted, v)
                  IN  /\ window' = r.window
                      /\ trace' = r.trace
                      /\ call' = Call("onCircuitElementDoubleClicked",
                                      <<index, previews, accepted>>, <<>>)
                      /\ lastOp' = Op("onCircuitElementDoubleClicked", index)
    /\ UNCHANGED <<calc, solutions, setterCalls>>

NextMain ==
    \/ AddMatchingElement
    \/ OnRemoveLastElement
    \/ OnClearElements
    \/ OnApplyMatchingSolution
    \/ OnElementValueDragged
    \/ OnDeleteElement

NextMainDialog ==
    \/ AddMatchingElement
    \/ OnRemoveLastElement
    \/ OnClearElements
    \/ OnCircuitElementDoubleClicked

\* the main window under its editing handlers
SpecMain == InitWindow /\ [][NextMain]_vars

\* the main window under the toolbar and the edit dialog
SpecMainDialog == InitWindow /\ [][NextMainDialog]_vars

---------------------------------------------------------------------------
(* The main window applying the solutions of the matching wizard, with the *)
(* impedances in ohms on a 50 ohm system.                                  *)

\* the frequency of the component panel in Hz: 2*pi*f = 2
ApplyFrequency == Rat(7, 22)

\* the reference impedance of the component panel in ohms
ApplyZ0 == Int2Rat(50)

\* the impedances entered in the impedance panel, in ohms
ApplyImpedances ==
    {Complex(Int2Rat(50), Zero), Complex(Int2Rat(100), Zero),
     Complex(Int2Rat(100), Int2Rat(50))}

InitApply ==
    /\ trace = [m_sourceZ   |-> Complex(Int2Rat(50), Zero),
                m_loadZ     |-> Complex(Int2Rat(50), Zero),
                m_z0        |-> ApplyZ0,
                m_frequency |-> ApplyFrequency,
                m_segments  |-> <<>>]
    /\ calc = [MatchingCalculatorDefault EXCEPT !.m_frequency = ApplyFrequency]
    /\ solutions = <<>>
    /\ setterCalls = 0
    /\ lastOp = Op("MainWindow", 0)
    /\ call = NoCall
    /\ window = WindowInit

\* MainWindow::onSourceImpedanceChanged
OnSourceImpedanceChanged ==
    /\ \E zs \in ApplyImpedances :
          /\ trace' = setSourceImpedance(trace, zs)
          /\ call' = Call("onSourceImpedanceChanged", <<zs>>, <<>>)
    /\ lastOp' = Op("onSourceImpedanceChanged", 0)
    /\ UNCHANGED <<window, calc, solutions, setterCalls>>

\* MainWindow::onLoadImpedanceChanged
OnLoadImpedanceChanged ==
    /\ \E zl \in ApplyImpedances :
          /\ trace' = setLoadImpedance(trace, zl)
          /\ call' = Call("onLoadImpedanceChanged", <<zl>>, <<>>)
    /\ lastOp' = Op("onLoadImpedanceChanged", 0)
    /\ UNCHANGED <<window, calc, solutions, setterCalls>>

\* onOpenMatchingWizard and the solutionSelected signal of the wizard
OnWizardSolutionSelected ==
    /\ \E solution \in WizardSolutions(trace, ApplyFrequency, ApplyZ0) :
          LET r == onApplyMatchingSolution(window, trace, solution, ApplyZ0)
          IN  /\ window' = r.window
              /\ trace' = r.trace
              /\ call' = Call("onApplyMatchingSolution", <<solution>>, <<>>)
    /\ lastOp' = Op("onApplyMatchingSolution", 0)
    /\ UNCHANGED <<calc, solutions, setterCalls>>

NextApply ==
    \/ OnSourceImpedanceChanged
    \/ OnLoadImpedanceChanged
    \/ OnWizardSolutionSelected
    \/ OnRemoveLastElement
    \/ OnClearElements

SpecApply == InitApply /\ [][NextApply]_vars

---------------------------------------------------------------------------
(* Properties of the trace.                                                *)

Segs == trace.m_segments

PointsOf(t) == [j \in 1..Len(t.m_segments) |-> t.m_segments[j].points]

ValuesOf(t) == [j \in 1..Len(t.m_segments) |-> t.m_segments[j].componentValue]

InRange(t, index) == index >= 0 /\ index < Len(t.m_segments)

IsAdd(op) == op.op \in {"addSeriesElement", "addShuntElement"}

\* the elements of segs appended in order, from position k on, to trace t:
\* addSegment(calculateSeriesElement(..)) or addSegment(calculateShuntElement(..))
RECURSIVE Rebuild(_, _, _)
Rebuild(t, segs, k) ==
    IF k > Len(segs) THEN t
    ELSE LET e == segs[k]
             s == IF e.connectionType = "Series"
                  THEN calculateSeriesElement(t, e.componentType,
                                              e.componentValue)
                  ELSE calculateShuntElement(t, e.componentType,
                                             e.componentValue)
         IN  Rebuild(addSegment(t, s), segs, k + 1)

\* the trace built from scratch under t's load, Z0 and frequency from the
\* (type, connection, value) elements of segs
Rebuilt(t, segs) == Rebuild(clear(t), segs, 1)

\* C1: after any sequence of edit operations every segment i > 0 starts at
\* the impedance where segment i-1 ends, and segment 0 starts at the load
\* impedance.
C1_ChainInvariant ==
    \A i \in 1..Len(Segs) :
        startPoint(Segs[i]).impedance =
            IF i = 1 THEN trace.m_loadZ ELSE endPoint(Segs[i - 1]).impedance

\* C2: with load, Z0 and frequency fixed, after updateSegmentValue(i, v)
\* with i in range the points of every segment are those of the trace
\* rebuilt from scratch from the same elements with element i's value
\* replaced by v.
C2_UpdateEqualsRebuild ==
    [][ (lastOp'.op = "updateSegmentValue" /\ InRange(trace, lastOp'.index))
        => \E v \in UpdateValues :
              /\ trace'.m_segments[lastOp'.index + 1].componentValue = v
              /\ PointsOf(trace') =
                    PointsOf(Rebuilt(trace,
                        [Segs EXCEPT ![lastOp'.index + 1].componentValue = v]))
      ]_vars

\* an in-range update of the first of two segments has moved the second
C2_Witness ==
    /\ lastOp.op = "updateSegmentValue"
    /\ lastOp.index = 0
    /\ Len(Segs) = 2
    /\ Segs[1].componentType = "Inductor"
    /\ Segs[1].componentValue \in UpdateValues
    /\ Segs[2].componentType = "Capacitor"
    /\ Segs[2].connectionType = "Shunt"
    /\ CFinite(endPoint(Segs[2]).impedance)
    /\ startPoint(Segs[2]).impedance = endPoint(Segs[1]).impedance

\* the round trip of C3 from the present trace: for every index in range
\* and every other value w, updateSegmentValue(i, w) then
\* updateSegmentValue(i, v) with v the value the segment has now
RoundTripRestores(t) ==
    \A index \in 0..(Len(t.m_segments) - 1), w \in UpdateValues :
        LET v  == t.m_segments[index + 1].componentValue
            t2 == updateSegmentValue(updateSegmentValue(t, index, w), index, v)
        IN  /\ ValuesOf(t2) = ValuesOf(t)
            /\ PointsOf(t2) = PointsOf(t)

\* every segment is what appending its element under the present load, Z0
\* and frequency produces
Consistent(t) == PointsOf(Rebuilt(t, t.m_segments)) = PointsOf(t)

IsEmptySegment(seg) ==
    /\ seg.points = <<>>
    /\ seg.componentType = "None"
    /\ seg.componentValue = Zero

OutOfRangeSegmentsEmpty(t) ==
    \A index \in IndexSet :
        ~InRange(t, index) => IsEmptySegment(segment(t, index))

\* C4: for every index outside [0, numSegments) updateSegmentValue leaves
\* the whole trace unchanged and segment(index) is an empty segment (no
\* points, type None, value 0), whatever was done to the trace before.
C4_OutOfRange ==
    [][ /\ OutOfRangeSegmentsEmpty(trace)
        /\ OutOfRangeSegmentsEmpty(trace')
        /\ (lastOp'.op = "updateSegmentValue" /\ ~InRange(trace, lastOp'.index))
              => trace' = trace
      ]_vars

\* updateSegmentValue was called with index 2 on a trace of two segments
C4_Witness ==
    /\ lastOp.op = "updateSegmentValue"
    /\ lastOp.index = 2
    /\ Len(Segs) = 2
    /\ Segs[2].points # <<>>

Parameters(t) == <<t.m_loadZ, t.m_sourceZ, t.m_z0, t.m_frequency>>

\* C5: removeLastSegment removes exactly the last segment and leaves the
\* others and the four parameters unchanged, and does nothing on an empty
\* trace; clear removes all segments; afterwards currentImpedance() is the
\* end of the new last segment, or the load when none remains; appending a
\* segment and then removing the last one restores the trace.
C5_RemoveAndClear ==
    [][ /\ lastOp'.op = "removeLastSegment" =>
              /\ Parameters(trace') = Parameters(trace)
              /\ IF Segs = <<>> THEN trace'.m_segments = <<>>
                 ELSE trace'.m_segments = SubSeq(Segs, 1, Len(Segs) - 1)
        /\ lastOp'.op = "clear" =>
              /\ Parameters(trace') = Parameters(trace)
              /\ trace'.m_segments = <<>>
        /\ lastOp'.op \in {"removeLastSegment", "clear"} =>
              currentImpedance(trace') =
                  IF trace'.m_segments = <<>> THEN trace'.m_loadZ
                  ELSE endPoint(trace'.m_segments[Len(trace'.m_segments)])
                           .impedance
        /\ IsAdd(lastOp') => removeLastSegment(trace') = trace
      ]_vars

\* removeLastSegment has cut a trace of two different segments to its first
C5_Witness ==
    /\ lastOp.op = "removeLastSegment"
    /\ Len(Segs) = 1
    /\ Segs[1].color = s_colors[1]
    /\ Segs[1].points # <<>>

\* the end point the formulas of C6 give for an element of the given kind
\* added at impedance z
C6_End(z, f, conn, type, value) ==
    LET w == TwoPiF(f)
        y == CDiv(COne, z)
    IN  IF conn = "Series"
        THEN CASE type = "Inductor" ->
                    Complex(z.re, RAdd(z.im, RMul(w, value)))
               [] type = "Capacitor" ->
                    Complex(z.re, RSub(z.im, RDiv(One, RMul(w, value))))
               [] OTHER -> Complex(RAdd(z.re, value), z.im)
        ELSE CASE type = "Capacitor" ->
                    CDiv(COne, Complex(y.re, RAdd(y.im, RMul(w, value))))
               [] type = "Inductor" ->
                    CDiv(COne,
                         Complex(y.re, RSub(y.im, RDiv(One, RMul(w, value)))))
               [] OTHER ->
                    CDiv(COne, Complex(RAdd(y.re, RDiv(One, value)), y.im))

\* C6: a newly computed resistor, inductor or capacitor segment starts at
\* the current impedance (end of the last segment, or the load) and ends at
\* that immittance plus the element's immittance; after addSegment
\* currentImpedance() is that end.
C6_NewSegment ==
    [][ IsAdd(lastOp') =>
          LET new == trace'.m_segments[Len(trace'.m_segments)]
              z   == currentImpedance(trace)
          IN  new.componentType \in {"Resistor", "Inductor", "Capacitor"} =>
                /\ startPoint(new).impedance = z
                /\ endPoint(new).impedance =
                      C6_End(z, trace.m_frequency, new.connectionType,
                             new.componentType, new.componentValue)
                /\ currentImpedance(trace') = endPoint(new).impedance
      ]_vars

---------------------------------------------------------------------------
(* Properties of the calculator.                                           *)

Rs == calc.m_sourceZ.re
Xs == calc.m_sourceZ.im
Rl == calc.m_loadZ.re
Xl == calc.m_loadZ.im

SolverOps ==
    {"calculateLSection", "calculatePiNetwork", "calculateTNetwork",
     "calculateSingleStub", "calculateQuarterWave"}

\* The reactance of a series inductor or capacitor and the susceptance of
\* a shunt capacitor or inductor at frequency f, as calculateSeriesElement
\* and calculateShuntElement of the trace evaluate them: 2*PI*f*value, or
\* -1/(2*PI*f*value) with 0 for a value that is not above 1e-18.
ElementReactance(e, f) ==
    IF e.type = "Inductor" THEN RMul(TwoPiF(f), e.value)
    ELSE IF AboveCapThreshold(e.value)
         THEN RDiv(RNeg(One), RMul(TwoPiF(f), e.value))
         ELSE Zero

ElementSusceptance(e, f) ==
    IF e.type = "Capacitor" THEN RMul(TwoPiF(f), e.value)
    ELSE IF AboveCapThreshold(e.value)
         THEN RDiv(RNeg(One), RMul(TwoPiF(f), e.value))
         ELSE Zero

Kinds(sol) ==
    [k \in 1..Len(sol.elements) |->
        <<sol.elements[k].connection, sol.elements[k].type>>]

Connections(sol) ==
    [k \in 1..Len(sol.elements) |-> sol.elements[k].connection]

IsReactive(sol) ==
    \A k \in 1..Len(sol.elements) :
        sol.elements[k].type \in {"Inductor", "Capacitor"}

\* q is the non-negative root of x, exact or cut to a multiple of
\* 1/SqrtScale: q >= 0 and q^2 <= x < (q + 1/SqrtScale)^2
IsRootOf(q, x) ==
    /\ RGe(q, Zero)
    /\ RLe(RMul(q, q), x)
    /\ LET up == RAdd(q, Rat(1, SqrtScale))
       IN  RLt(x, RMul(up, up))

\* C7: every solver returns an empty list whenever the source resistance
\* or the load resistance is not positive.
C7_NonPositiveResistance ==
    (lastOp.op \in SolverOps /\ (RLe(Rs, Zero) \/ RLe(Rl, Zero)))
        => solutions = <<>>

\* C8: for positive Rs and Rl calculateLSection returns, when Rs > Rl, two
\* valid two-element solutions ordered shunt then series, from B = +Q/Rs
\* with X = +Q*Rl - Xl and from B = -Q/Rs with X = -Q*Rl - Xl,
\* Q^2 = Rs/Rl - 1; when Rs < Rl, two valid two-element solutions ordered
\* series then shunt with Q^2 = Rl/Rs - 1 (B = +Q/Rl and -Q/Rl); when
\* Rs = Rl and the reactances differ, one valid solution whose single
\* series element has the reactance -(Xl - Xs).
C8_LSection ==
    (lastOp.op = "calculateLSection" /\ RGt(Rs, Zero) /\ RGt(Rl, Zero)) =>
        LET f == calc.m_frequency
            TwoElements(order) ==
                /\ Len(solutions) = 2
                /\ \A k \in 1..2 :
                      /\ solutions[k].valid
                      /\ Connections(solutions[k]) = order
                      /\ IsReactive(solutions[k])
        IN  IF RGt(Rs, Rl) THEN
                LET Q == Sqrt(RSub(RDiv(Rs, Rl), One))
                IN  /\ IsRootOf(Q, RSub(RDiv(Rs, Rl), One))
                    /\ TwoElements(<<"Shunt", "Series">>)
                    /\ ElementSusceptance(solutions[1].elements[1], f)
                          = RDiv(Q, Rs)
                    /\ ElementReactance(solutions[1].elements[2], f)
                          = RSub(RMul(Q, Rl), Xl)
                    /\ ElementSusceptance(solutions[2].elements[1], f)
                          = RDiv(RNeg(Q), Rs)
                    /\ ElementReactance(solutions[2].elements[2], f)
                          = RSub(RMul(RNeg(Q), Rl), Xl)
            ELSE IF RLt(Rs, Rl) THEN
                LET Q == Sqrt(RSub(RDiv(Rl, Rs), One))
                IN  /\ IsRootOf(Q, RSub(RDiv(Rl, Rs), One))
                    /\ TwoElements(<<"Series", "Shunt">>)
                    /\ ElementSusceptance(solutions[1].elements[2], f)
                          = RDiv(Q, Rl)
                    /\ ElementSusceptance(solutions[2].elements[2], f)
                          = RDiv(RNeg(Q), Rl)
            ELSE Xl # Xs =>
                    /\ Len(solutions) = 1
                    /\ solutions[1].valid
                    /\ Connections(solutions[1]) = <<"Series">>
                    /\ IsReactive(solutions[1])
                    /\ ElementReactance(solutions[1].elements[1], f)
                          = RNeg(RSub(Xl, Xs))

\* calculateLSection has answered for Rs = 100 above Rl = 50 with a
\* reactive load
C8_Witness ==
    /\ lastOp.op = "calculateLSection"
    /\ calc.m_sourceZ = Complex(Int2Rat(100), Zero)
    /\ calc.m_loadZ = Complex(Int2Rat(50), Int2Rat(-50))
    /\ Len(solutions) = 2
    /\ solutions[1].elements[2].value # Zero

\* the load carried through the elements in the order given: a series
\* element adds its reactance to Z, a shunt element adds its susceptance
\* to Y = 1/Z
RECURSIVE Forward(_, _, _)
Forward(z, elements, f) ==
    IF elements = <<>> THEN z
    ELSE LET e == Head(elements)
             next ==
                 IF e.connection = "Series"
                 THEN CAdd(z, Complex(Zero, ElementReactance(e, f)))
                 ELSE CDiv(COne,
                           CAdd(CDiv(COne, z),
                                Complex(Zero, ElementSusceptance(e, f))))
         IN  Forward(next, Tail(elements), f)

Reversed(seq) == [k \in 1..Len(seq) |-> seq[Len(seq) + 1 - k]]

\* 0.01 ohm
C9_Tolerance == Rat(1, 100)

Within(a, b, tol) ==
    /\ RLe(RAbs(RSub(a.re, b.re)), tol)
    /\ RLe(RAbs(RSub(a.im, b.im)), tol)

\* C9: for Z0 = 50, Zs = 50 + j0 and Zl = 100 + j50 calculateLSection
\* returns a valid two-element solution that carries the load to Zs within
\* tolerance (elements applied from either end of the list).
C9_LSectionReachesSource ==
    (/\ lastOp.op = "calculateLSection"
     /\ calc.m_z0 = Int2Rat(50)
     /\ calc.m_sourceZ = Complex(Int2Rat(50), Zero)
     /\ calc.m_loadZ = Complex(Int2Rat(100), Int2Rat(50)))
    => \E k \in 1..Len(solutions) :
          /\ solutions[k].valid
          /\ Len(solutions[k].elements) = 2
          /\ \/ Within(Forward(calc.m_loadZ, solutions[k].elements,
                               calc.m_frequency),
                       calc.m_sourceZ, C9_Tolerance)
             \/ Within(Forward(calc.m_loadZ,
                               Reversed(solutions[k].elements),
                               calc.m_frequency),
                       calc.m_sourceZ, C9_Tolerance)

\* C10: for positive Rs and Rl and target Q, calculatePiNetwork returns one
\* valid solution shunt C, series L, shunt C with Rv = min(Rs,Rl)/(1+Q^2),
\* q1^2 = Rs/Rv - 1, q2^2 = Rl/Rv - 1, susceptances q1/Rs and q2/Rl and
\* series reactance q1*Rv + q2*Rv; calculateTNetwork returns one valid
\* solution series L, shunt C, series L with Rv = max(Rs,Rl)*(1+Q^2),
\* q1^2 = Rv/Rs - 1, q2^2 = Rv/Rl - 1, reactances q1*Rs and q2*Rl and
\* shunt susceptance q1/Rv + q2/Rv.
C10_PiAndTNetwork ==
    LET f  == calc.m_frequency
        Q  == Int2Rat(lastOp.index)
        Q2 == RAdd(One, RMul(Q, Q))
        OneValid(kinds) ==
            /\ Len(solutions) = 1
            /\ solutions[1].valid
            /\ Kinds(solutions[1]) = kinds
        el == solutions[1].elements
    IN  (RGt(Rs, Zero) /\ RGt(Rl, Zero)) =>
          /\ lastOp.op = "calculatePiNetwork" =>
                LET Rv == RDiv(IF RLt(Rs, Rl) THEN Rs ELSE Rl, Q2)
                    q1 == Sqrt(RSub(RDiv(Rs, Rv), One))
                    q2 == Sqrt(RSub(RDiv(Rl, Rv), One))
                IN  /\ IsRootOf(q1, RSub(RDiv(Rs, Rv), One))
                    /\ IsRootOf(q2, RSub(RDiv(Rl, Rv), One))
                    /\ OneValid(<<<<"Shunt", "Capacitor">>,
                                  <<"Series", "Inductor">>,
                                  <<"Shunt", "Capacitor">>>>)
                    /\ ElementSusceptance(el[1], f) = RDiv(q1, Rs)
                    /\ ElementReactance(el[2], f)
                          = RAdd(RMul(q1, Rv), RMul(q2, Rv))
                    /\ ElementSusceptance(el[3], f) = RDiv(q2, Rl)
          /\ lastOp.op = "calculateTNetwork" =>
                LET Rv == RMul(IF RLt(Rs, Rl) THEN Rl ELSE Rs, Q2)
                    q1 == Sqrt(RSub(RDiv(Rv, Rs), One))
                    q2 == Sqrt(RSub(RDiv(Rv, Rl), One))
                IN  /\ IsRootOf(q1, RSub(RDiv(Rv, Rs), One))
                    /\ IsRootOf(q2, RSub(RDiv(Rv, Rl), One))
                    /\ OneValid(<<<<"Series", "Inductor">>,
                                  <<"Shunt", "Capacitor">>,
                                  <<"Series", "Inductor">>>>)
                    /\ ElementReactance(el[1], f) = RMul(q1, Rs)
                    /\ ElementSusceptance(el[2], f)
                          = RAdd(RDiv(q1, Rv), RDiv(q2, Rv))
                    /\ ElementReactance(el[3], f) = RMul(q2, Rl)

\* calculatePiNetwork has answered for Rs = 50, Rl = 100 and target Q = 2
C10_Witness ==
    /\ lastOp.op = "calculatePiNetwork"
    /\ lastOp.index = 2
    /\ Rs = Int2Rat(50)
    /\ Rl = Int2Rat(100)
    /\ Len(solutions) = 1
    /\ solutions[1].elements[2].value # Zero

\* a root cut to a multiple of 1/SqrtScale moves the impedances of the
\* chain by less than a quarter of an ohm
C11_Tolerance == Rat(25, SqrtScale)

\* the impedance seen towards the source from behind a shunt element e
\* that is terminated by z: 1 / (1/z - jB)
BehindShunt(z, e, f) ==
    CDiv(COne, CSub(CDiv(COne, z),
                    Complex(Zero, ElementSusceptance(e, f))))

\* C11: for target Q = 2, Zs = 50 and Zl = 200 calculatePiNetwork returns
\* one three-element chain which, applied to the load from the load end,
\* arrives at Zs within tolerance; the q of the source side, b1*Rs, is the
\* root of Rs/Rv - 1 and the q of the load side, b2*Rl, is the root of
\* Rl/Rv - 1 for Rv = min(Rs,Rl)/(1+Q^2) = 10.  The chain arrives at Zs
\* exactly when the load carried through the load-side shunt element and
\* the series element is Zs seen from behind the source-side shunt
\* element; the two are compared at that node.
C11_PiNetworkReachesSource ==
    (/\ lastOp.op = "calculatePiNetwork"
     /\ lastOp.index = 2
     /\ calc.m_sourceZ = Complex(Int2Rat(50), Zero)
     /\ calc.m_loadZ = Complex(Int2Rat(200), Zero))
    => /\ Len(solutions) = 1
       /\ solutions[1].valid
       /\ Len(solutions[1].elements) = 3
       /\ LET f  == calc.m_frequency
              el == solutions[1].elements
              Rv == Int2Rat(10)
              q1 == RMul(ElementSusceptance(el[1], f), Rs)
              q2 == RMul(ElementSusceptance(el[3], f), Rl)
          IN  /\ IsRootOf(q1, RSub(RDiv(Rs, Rv), One))
              /\ IsRootOf(q2, RSub(RDiv(Rl, Rv), One))
              /\ Within(Forward(calc.m_loadZ, <<el[3], el[2]>>, f),
                        BehindShunt(calc.m_sourceZ, el[1], f),
                        C11_Tolerance)

\* calculatePiNetwork has answered for Rs = 50, Rl = 200 and target Q = 2
\* with a load-side q that is not a rational square root
C11_Witness ==
    /\ lastOp.op = "calculatePiNetwork"
    /\ lastOp.index = 2
    /\ calc.m_sourceZ = Complex(Int2Rat(50), Zero)
    /\ calc.m_loadZ = Complex(Int2Rat(200), Zero)
    /\ Len(solutions) = 1
    /\ LET q2 == RMul(ElementSusceptance(solutions[1].elements[3],
                                         calc.m_frequency), Rl)
       IN  RMul(q2, q2) # Int2Rat(19)

\* A stored length sign * atan(arg) / beta (+ lambda / 2) lies in
\* [0, lambda / 2) for lambda = 3e8 / f, f > 0: atan(arg) / beta lies in
\* (-lambda/4, lambda/4) with the sign of arg, so the length is in range
\* exactly when lambda / 2 was added to a negative sign * atan(arg) and to
\* no other; for an infinite arg the length is lambda / 4.
LengthInRange(l) ==
    /\ RGt(l.frequency, Zero)
    /\ IF IsFinite(l.atanOf)
       THEN l.plusHalfLambda
                <=> RLt(RMul(Int2Rat(l.sign), l.atanOf), Zero)
       ELSE ~l.plusHalfLambda

\* the normalized load admittance 1 / (Zl / Z0)
NormalizedLoadAdmittance ==
    CDiv(COne, Complex(RDiv(calc.m_loadZ.re, calc.m_z0),
                       RDiv(calc.m_loadZ.im, calc.m_z0)))

IsStubSolution(sol, stub) ==
    /\ sol.valid
    /\ Kinds(sol) = <<<<"Series", "TransmissionLine">>, <<"Shunt", stub>>>>
    /\ \A k \in 1..2 : LengthInRange(sol.elements[k].value)

C13_QuarterWave ==
    (lastOp.op = "calculateQuarterWave" /\ RGt(Rs, Zero) /\ RGt(Rl, Zero)) =>
        /\ Len(solutions) = 1
        /\ solutions[1].valid
        /\ LET el   == solutions[1].elements
               line == el[Len(el)]
           IN  /\ line.type = "TransmissionLine"
               /\ line.connection = "Series"
               /\ IsRootOf(line.value, RMul(Rs, Rl))
               /\ IF Xl = Zero THEN Len(el) = 1
                  ELSE /\ Len(el) = 2
                       /\ el[1].connection = "Series"
                       /\ el[1].type = IF RLt(Xl, Zero) THEN "Inductor"
                                                        ELSE "Capacitor"
                       /\ ElementReactance(el[1], calc.m_frequency)
                             = RNeg(Xl)

\* calculateQuarterWave has answered for a load with reactance
C13_Witness ==
    /\ lastOp.op = "calculateQuarterWave"
    /\ RGt(Rs, Zero)
    /\ RGt(Rl, Zero)
    /\ Xl # Zero
    /\ Len(solutions) = 1
    /\ Len(solutions[1].elements) = 2

\* the solution lists of the five topology solvers for the parameters of
\* the calculator, in the order L-section, Pi-network, T-network,
\* single-stub, quarter-wave
SolverLists ==
    <<calculateLSection(calc),
      calculatePiNetwork(calc, DefaultTargetQ),
      calculateTNetwork(calc, DefaultTargetQ),
      calculateSingleStub(calc),
      calculateQuarterWave(calc)>>

Range(seq) == {seq[k] : k \in 1..Len(seq)}

\* C14: calculateAll returns the concatenation of the solution lists of
\* every topology solver (L-section, Pi-network, T-network, single-stub,
\* quarter-wave): it holds every solution of each of the five solvers and
\* as many solutions as the five solvers return together.
C14_CalculateAll ==
    lastOp.op = "calculateAll" =>
        /\ \A k \in 1..5 : Range(SolverLists[k]) \subseteq Range(solutions)
        /\ Len(solutions) = Len(SolverLists[1]) + Len(SolverLists[2])
                            + Len(SolverLists[3]) + Len(SolverLists[4])
                            + Len(SolverLists[5])

---------------------------------------------------------------------------
(* Properties of the ComponentCalculator.                                  *)

\* 2*pi*f
Omega(f) == RMul(RMul(Int2Rat(2), PI), f)

\* the component the classification of a reactance (susceptance) step d at
\* a positive frequency f asks for: kindUp with d/(2*pi*f) for d > 0,
\* kindDown with -1/(2*pi*f*d) for d < 0, None for d = 0
Classified(result, d, f, kindUp, kindDown) ==
    IF RGt(d, Zero)
    THEN result.type = kindUp /\ result.value = RDiv(d, Omega(f))
    ELSE IF RLt(d, Zero)
    THEN /\ result.type = kindDown
         /\ result.value = RDiv(RNeg(One), RMul(Omega(f), d))
    ELSE result.type = "None"

\* C15: at a positive frequency calculateSeriesComponent classifies
\* dX = Im(Z_target) - Im(Z_current) as an inductor dX/(2*pi*f), a capacitor
\* -1/(2*pi*f*dX) or None, and calculateShuntComponent classifies
\* dB = Im(Y_target) - Im(Y_current) as a capacitor dB/(2*pi*f), an inductor
\* -1/(2*pi*f*dB) or None; calculateSeriesComponent(Z, Z, f) is None for
\* every Z and f.
C15_Classification ==
    LET d == RSub(call.args[2].im, call.args[1].im)
        f == call.args[3]
    IN  /\ call.fn = "calculateSeriesComponent" =>
              /\ RGt(f, Zero) =>
                    Classified(call.result, d, f, "Inductor", "Capacitor")
              /\ call.args[1] = call.args[2] => call.result.type = "None"
        /\ call.fn = "calculateShuntComponent" =>
              (RGt(f, Zero) =>
                  Classified(call.result, d, f, "Capacitor", "Inductor"))

\* calculateSeriesComponent has classified a negative step at a positive
\* frequency
C15_Witness ==
    /\ call.fn = "calculateSeriesComponent"
    /\ RGt(call.args[3], Zero)
    /\ RLt(RSub(call.args[2].im, call.args[1].im), Zero)
    /\ call.result.type = "Capacitor"

\* C16: in calculateInductance, calculateCapacitance,
\* calculateSeriesComponent and calculateShuntComponent a frequency <= 0 or
\* a zero denominator (the reactance of calculateCapacitance, the step of
\* the two classifications) gives a component of type None and value 0.
C16_DegenerateInputs ==
    LET f == call.args[Len(call.args)]
        isNone == call.result.type = "None" /\ call.result.value = Zero
    IN  /\ call.fn = "calculateInductance" => (RLe(f, Zero) => isNone)
        /\ call.fn = "calculateCapacitance" =>
              ((RLe(f, Zero) \/ call.args[1] = Zero) => isNone)
        /\ call.fn \in {"calculateSeriesComponent", "calculateShuntComponent"}
              => ((RLe(f, Zero) \/ call.args[1].im = call.args[2].im)
                      => isNone)

---------------------------------------------------------------------------
(* Properties of the conversions.                                          *)

\* C17: for Z0 > 0 and Re(Z) >= 0, gammaToImpedance(impedanceToGamma(Z, Z0),
\* Z0) is Z, except where 1 - Gamma is (nearly) zero and the sentinel is
\* returned.
C17_ImpedanceRoundTrip ==
    call.fn = "gammaToImpedance(impedanceToGamma)" =>
        LET z  == call.args[1]
            z0 == call.args[2]
        IN  (RGt(z0, Zero) /\ RGe(z.re, Zero)) =>
                \/ call.result = z
                \/ /\ CBelowEps(CSub(COne, impedanceToGamma(z, z0)))
                   /\ call.result = Complex(Sentinel, Zero)

\* the round trip was made for Z = 75 + j50 on Z0 = 50
C17_Witness ==
    /\ call.fn = "gammaToImpedance(impedanceToGamma)"
    /\ call.args = <<Complex(Int2Rat(75), Int2Rat(50)), Int2Rat(50)>>
    /\ call.result = Complex(Int2Rat(75), Int2Rat(50))

\* the conversions of smithmath.cpp and impedance.cpp return the sentinel
\* 1e12 + j0 where they would divide by zero
C18_ConversionsReturnSentinel ==
    LET sentinel == Complex(Sentinel, Zero)
        zero     == Complex(Zero, Zero)
    IN  /\ (/\ call.fn \in {"gammaToImpedance", "gammaToNormalizedZ"}
            /\ CSub(COne, call.args[1]) = zero) => call.result = sentinel
        /\ (/\ call.fn = "gammaToAdmittance"
            /\ CAdd(COne, call.args[1]) = zero) => call.result = sentinel
        /\ (/\ call.fn \in {"Impedance::toAdmittance",
                            "Admittance::toImpedance"}
            /\ call.args[1] = zero) => call.result = sentinel

\* A shunt resistor, inductor or capacitor segment that leaves the
\* impedance 0 was computed from the admittance 1e12 + j0: each of its
\* points is 1 / (G + jB) with G >= 1e12, a finite impedance of positive
\* resistance.
C18_TraceInversion ==
    \A i \in 1..Len(Segs) :
        LET before == IF i = 1 THEN trace.m_loadZ
                               ELSE endPoint(Segs[i - 1]).impedance
        IN  (/\ Segs[i].connectionType = "Shunt"
             /\ Segs[i].componentType \in {"Resistor", "Inductor", "Capacitor"}
             /\ before = Complex(Zero, Zero))
            => \A k \in 1..Len(Segs[i].points) :
                  /\ CFinite(Segs[i].points[k].impedance)
                  /\ RGt(Segs[i].points[k].impedance.re, Zero)

\* C18: every conversion that would divide by a near-zero quantity returns
\* the sentinel 1e12 + j0: gammaToImpedance and gammaToNormalizedZ at
\* Gamma = 1, gammaToAdmittance at Gamma = -1, Impedance::toAdmittance and
\* Admittance::toImpedance of 0, and the inversion of the current impedance
\* 0 when a shunt element is added to or recomputed in a trace.
C18_Sentinel == C18_ConversionsReturnSentinel /\ C18_TraceInversion

\* (1 + m) / (1 - m)
StandingWaveRatio(m) == RDiv(RAdd(One, m), RSub(One, m))

\* C19: on 0 <= m < 1 gammaToVSWR(m) = (1+m)/(1-m) is at least 1 and
\* strictly increasing in m; for every m >= 1 it is the same sentinel;
\* vswrToGamma(gammaToVSWR(m)) = m for 0 <= m < 1, and vswrToGamma takes
\* an input below 1 for 1.
C19_VSWR ==
    LET m == call.args[1]
        inside == RGe(m, Zero) /\ RLt(m, One)
    IN  /\ call.fn = "gammaToVSWR" =>
              /\ inside =>
                    /\ call.result = StandingWaveRatio(m)
                    /\ RGe(call.result, One)
                    /\ \A m2 \in MathMagnitudes :
                          (RLt(m, m2) /\ RLt(m2, One)) =>
                              RLt(call.result, StandingWaveRatio(m2))
              /\ RGe(m, One) => call.result = VSWRSentinel
        /\ call.fn = "vswrToGamma(gammaToVSWR)" =>
              (inside => call.result = m)
        /\ call.fn = "vswrToGamma" =>
              (RLt(m, One) => call.result = Zero)

\* the round trip was made for the magnitude 1/3, whose VSWR is 2
C19_Witness ==
    /\ call.fn = "vswrToGamma(gammaToVSWR)"
    /\ call.args[1] = Rat(1, 3)
    /\ call.result = Rat(1, 3)
    /\ gammaToVSWR(call.args[1]) = Int2Rat(2)

---------------------------------------------------------------------------
(* Properties of the select-point add mode.                                *)

\* the left click was made in select-point add mode, on a point inside
\* the chart that is not a drag handle
ClickInAddMode ==
    /\ lastOp'.op = "mousePressEvent"
    /\ window.m_interactionMode = "AddElement"
    /\ window.m_hasPendingElement
    /\ isInsideUnitCircle(call'.args[1])
    /\ hitTestTraceEndpoint(trace, call'.args[1]) = -1

\* C20: a click on a target point inside the chart in select-point add
\* mode computes the element value that reaches the target from the
\* current impedance; when there is such a value (the pending element can
\* reach the target) one element of the pending type with that value is
\* appended to the trace and to the circuit view; the pending element is
\* cleared and the mode is Normal after the click.
C20_SelectPointAdd ==
    [][ ClickInAddMode =>
          /\ window'.m_interactionMode = "Normal"
          /\ ~window'.m_hasPendingElement
          /\ (call'.result.validElement /\ RGt(call'.result.value, Zero)) =>
                /\ Len(trace'.m_segments) = Len(trace.m_segments) + 1
                /\ Len(window'.m_elements) = Len(window.m_elements) + 1
                /\ LET seg  == trace'.m_segments[Len(trace'.m_segments)]
                       elem == window'.m_elements[Len(window'.m_elements)]
                   IN  /\ seg.componentType = window.m_pendingType
                       /\ seg.connectionType = window.m_pendingConnection
                       /\ seg.componentValue = call'.result.value
                       /\ elem.type = window.m_pendingType
                       /\ elem.connection = window.m_pendingConnection
                       /\ elem.value = call'.result.value
      ]_vars

\* the part of C20 about the mode: after the click the pending element is
\* cleared and the mode is Normal
C20_ModeReturnsToNormal ==
    [][ ClickInAddMode =>
          /\ window'.m_interactionMode = "Normal"
          /\ ~window'.m_hasPendingElement
          /\ window'.m_pendingType = "None"
      ]_vars

---------------------------------------------------------------------------
(* Properties of the arcs.                                                 *)

IsRLC(seg) == seg.componentType \in {"Resistor", "Inductor", "Capacitor"}

\* the impedance at which segment i (counted from 1) was computed
StartOf(t, i) ==
    IF i = 1 THEN t.m_loadZ ELSE endPoint(t.m_segments[i - 1]).impedance

\* the step of the varying coordinate an element of the given kind makes:
\* reactance of a series L or C, resistance of a series R, susceptance of a
\* shunt C or L, conductance of a shunt R
ArcDelta(f, conn, type, value) ==
    LET w == TwoPiF(f)
    IN  IF conn = "Series"
        THEN CASE type = "Inductor"  -> RMul(w, value)
               [] type = "Capacitor" -> RNeg(RDiv(One, RMul(w, value)))
               [] OTHER              -> value
        ELSE CASE type = "Capacitor" -> RMul(w, value)
               [] type = "Inductor"  -> RNeg(RDiv(One, RMul(w, value)))
               [] OTHER              -> RDiv(One, value)

\* the tag of the arc of an element of the given kind
ArcTag(conn, type) ==
    IF conn = "Series"
    THEN (IF type = "Resistor" THEN "ConstantX" ELSE "ConstantR")
    ELSE (IF type = "Resistor" THEN "ConstantB" ELSE "ConstantG")

\* start + (k / 49) * delta
Interpolated(start, delta, k) == RAdd(start, RMul(Rat(k, 49), delta))

\* z is the impedance of the admittance y
IsInverseOf(z, y) == CMul(z, y) = COne

\* segment i of t is the linearly interpolated arc of its element, drawn
\* from the impedance at which it was computed
IsInterpolatedArc(t, i) ==
    LET seg    == t.m_segments[i]
        startZ == StartOf(t, i)
        startY == CDiv(COne, startZ)
        delta  == ArcDelta(t.m_frequency, seg.connectionType,
                           seg.componentType, seg.componentValue)
        fixedX == seg.componentType = "Resistor"
    IN  /\ Len(seg.points) = 50
        /\ seg.type = ArcTag(seg.connectionType, seg.componentType)
        /\ \A k \in 0..49 :
              LET z == seg.points[k + 1].impedance
              IN  IF seg.connectionType = "Series"
                  THEN z = IF fixedX
                           THEN Complex(Interpolated(startZ.re, delta, k),
                                        startZ.im)
                           ELSE Complex(startZ.re,
                                        Interpolated(startZ.im, delta, k))
                  ELSE IsInverseOf(z,
                          IF fixedX
                          THEN Complex(Interpolated(startY.re, delta, k),
                                       startY.im)
                          ELSE Complex(startY.re,
                                       Interpolated(startY.im, delta, k)))

\* C21: every segment computed for a resistor, inductor or capacitor has
\* exactly 50 points; its varying coordinate is linearly interpolated from
\* the start value (k = 0) to start + delta (k = 49) and its other
\* coordinate is the start value at every point: resistance for a series
\* L/C (ConstantR), reactance for a series R (ConstantX), conductance for a
\* shunt L/C (ConstantG), susceptance for a shunt R (ConstantB).
C21_InterpolatedArcs ==
    \A i \in 1..Len(Segs) : IsRLC(Segs[i]) => IsInterpolatedArc(trace, i)

\* C21 on the traces whose segments all start at a resistance and a
\* conductance of at least the floor of the resistor arcs
C21_AwayFromFloor ==
    (\A i \in 1..Len(Segs) :
        /\ RGe(StartOf(trace, i).re, ArcFloor)
        /\ RGe(CDiv(COne, StartOf(trace, i)).re, ArcFloor))
    => C21_InterpolatedArcs

\* the coordinate the floor is about: the resistance of a point of a series
\* element's arc, the conductance of a point of a shunt element's arc
\* Re(1 / z) of z = (a + jb) / c with integers a, b, c: with h the common
\* divisor of a and b it is (a/h) * c / (h * ((a/h)^2 + (b/h)^2))
Conductance(z) ==
    IF ~CFinite(z) \/ (z.re.n = 0 /\ z.im.n = 0) THEN NonFinite
    ELSE LET g == GCD(z.re.d, z.im.d)
             c == (z.re.d \div g) * z.im.d
             a == z.re.n * (z.im.d \div g)
             b == z.im.n * (z.re.d \div g)
             h == GCD(Abs(a), Abs(b))
         IN  RMul(Rat(a \div h, (a \div h) * (a \div h)
                                   + (b \div h) * (b \div h)),
                  Rat(c, h))

FlooredCoordinate(seg, k) ==
    LET z == seg.points[k].impedance
    IN  IF seg.connectionType = "Series" THEN z.re ELSE Conductance(z)

AboveFloor(seg) ==
    \A k \in 1..Len(seg.points) :
        RGe(FlooredCoordinate(seg, k), Rat(1, 1000))

\* C22: in every point of every arc of any of the four variants, whatever
\* the start immittance and the element value, the resistance (series
\* arcs) respectively the conductance (shunt arcs) is at least 0.001, so no
\* trace point has a non-positive resistance or conductance.
C22_ArcFloor ==
    \A i \in 1..Len(Segs) : IsRLC(Segs[i]) => AboveFloor(Segs[i])

\* the part of C22 that the two resistor arcs have: a ConstantX arc drawn
\* from a finite impedance, and a ConstantB arc drawn from a finite
\* admittance, stays at or above 0.001
C22_ResistorArcFloor ==
    \A i \in 1..Len(Segs) :
        (/\ Segs[i].componentType = "Resistor"
         /\ CFinite(StartOf(trace, i))
         /\ (Segs[i].connectionType = "Shunt"
                => CFinite(CDiv(COne, StartOf(trace, i)))))
        => AboveFloor(Segs[i])

---------------------------------------------------------------------------
(* Properties of component synthesis.                                      *)

\* the sign rule for a series element made from the reactance x
FollowsReactanceRule(e, x, f) ==
    /\ e.connection = "Series"
    /\ IF RGt(x, Zero)
       THEN e.type = "Inductor" /\ e.value = RDiv(x, TwoPiF(f))
       ELSE IF RLt(x, Zero)
       THEN e.type = "Capacitor"
               /\ e.value = RDiv(RNeg(One), RMul(TwoPiF(f), x))
       ELSE e.type = "None"

\* the sign rule for a shunt element made from the susceptance b
FollowsSusceptanceRule(e, b, f) ==
    /\ e.connection = "Shunt"
    /\ IF RGt(b, Zero)
       THEN e.type = "Capacitor" /\ e.value = RDiv(b, TwoPiF(f))
       ELSE IF RLt(b, Zero)
       THEN e.type = "Inductor"
               /\ e.value = RDiv(RNeg(One), RMul(TwoPiF(f), b))
       ELSE e.type = "None"

\* C23: in every L-section solution each element's type and value follow
\* the sign rule: the series element made from the reactance X is an
\* inductor X/(2*pi*f) when X > 0, a capacitor -1/(2*pi*f*X) when X < 0 and
\* None when X is 0; the shunt element made from the susceptance B is a
\* capacitor B/(2*pi*f) when B > 0, an inductor -1/(2*pi*f*B) when B < 0 and
\* None when B is 0; no inductor or capacitor of zero magnitude is emitted.
\* X and B are the ones of the solution: +-Q*Rl - Xl and +-Q/Rs for
\* Rs > Rl, -(Xl - Xs) for Rs = Rl, and otherwise the reactance and the
\* susceptance the element presents.
C23_SignRule ==
    lastOp.op = "calculateLSection" =>
        LET f == calc.m_frequency
            Q == Sqrt(RSub(RDiv(Rs, Rl), One))
            X(k, e) ==
                IF RGt(Rs, Rl)
                THEN RSub(RMul(IF k = 1 THEN Q ELSE RNeg(Q), Rl), Xl)
                ELSE IF RLt(Rs, Rl) THEN ElementReactance(e, f)
                ELSE RNeg(RSub(Xl, Xs))
            B(k, e) ==
                IF RGt(Rs, Rl)
                THEN RDiv(IF k = 1 THEN Q ELSE RNeg(Q), Rs)
                ELSE ElementSusceptance(e, f)
        IN  \A k \in 1..Len(solutions) :
                \A j \in 1..Len(solutions[k].elements) :
                    LET e == solutions[k].elements[j]
                    IN  /\ e.connection = "Series"
                            => FollowsReactanceRule(e, X(k, e), f)
                        /\ e.connection = "Shunt"
                            => FollowsSusceptanceRule(e, B(k, e), f)
                        /\ e.type \in {"Inductor", "Capacitor"}
                            => e.value # Zero

\* C23 for the solutions all of whose elements have a non-zero value
C23_SignRuleAwayFromZero ==
    (\A k \in 1..Len(solutions) :
        \A j \in 1..Len(solutions[k].elements) :
            solutions[k].elements[j].value # Zero)
    => C23_SignRule

---------------------------------------------------------------------------
(* Properties of the single-stub solver.                                   *)

\* tan(beta * d) of solution r: the argument of the arctangent its line
\* length was made from
TanOf(r) == solutions[r].elements[1].value.atanOf

\* B_stub of the open-stub solution r: the argument of the arctangent its
\* stub length was made from
StubSusceptanceOf(r) == solutions[r].elements[2].value.atanOf

\* -Im((yL + jt) / (1 + jt * yL))
MinusImYin(yL, t) ==
    LET jt == Complex(Zero, t)
    IN  RNeg(CDiv(CAdd(yL, jt), CAdd(COne, CMul(jt, yL))).im)

\* calculateSingleStub has answered with its four solutions
StubAnswered ==
    /\ lastOp.op = "calculateSingleStub"
    /\ RGt(NormalizedLoadAdmittance.re, Zero)
    /\ Len(solutions) = 4

\* the stub susceptance of each candidate is -Im(y_in)
StubSusceptanceCancels ==
    \A r \in {1, 3} :
        StubSusceptanceOf(r) = MinusImYin(NormalizedLoadAdmittance, TanOf(r))

\* C24: in calculateSingleStub, for a normalized load admittance g + jb
\* with g > 0 and g not 1, the two candidate values of tan(beta*d) are
\* (b + s)/(g - 1 - b^2/g) and (b - s)/(g - 1 - b^2/g) with
\* s = sqrt(g*((1-g)^2 + b^2)); for g = 1 the value is -b/2; the stub
\* susceptance of each candidate is B_stub = -Im(y_in) with
\* y_in = (y_L + j*t)/(1 + j*t*y_L).
C24_TanRoots ==
    StubAnswered =>
        LET g   == NormalizedLoadAdmittance.re
            b   == NormalizedLoadAdmittance.im
            gA  == RMul(g, RAdd(RMul(RSub(One, g), RSub(One, g)),
                                RMul(b, b)))
            den == RSub(RSub(g, One), RDiv(RMul(b, b), g))
        IN  /\ IF g = One
               THEN \A r \in {1, 3} : TanOf(r) = RDiv(RNeg(b), Int2Rat(2))
               ELSE /\ IsRootOf(RSub(RMul(TanOf(1), den), b), gA)
                    /\ IsRootOf(RSub(b, RMul(TanOf(3), den)), gA)
            /\ StubSusceptanceCancels

\* the parts of C24 about g = 1 and about the stub susceptance
C24_SpecialCaseAndSusceptance ==
    StubAnswered =>
        /\ NormalizedLoadAdmittance.re = One =>
              \A r \in {1, 3} :
                  TanOf(r) = RDiv(RNeg(NormalizedLoadAdmittance.im),
                                  Int2Rat(2))
        /\ StubSusceptanceCancels

---------------------------------------------------------------------------
(* Properties of the derivation of a component from a reactance.           *)

\* the type the sign of d asks for: up for d > 0, down for d < 0, None for 0
TypeBySign(d, up, down) ==
    IF RGt(d, Zero) THEN up ELSE IF RLt(d, Zero) THEN down ELSE "None"

\* what typeFromReactance and typeFromSusceptance return
TypesFollowSign ==
    /\ call.fn = "typeFromReactance" =>
          call.result = TypeBySign(call.args[1], "Inductor", "Capacitor")
    /\ call.fn = "typeFromSusceptance" =>
          call.result = TypeBySign(call.args[1], "Capacitor", "Inductor")

\* C25: deriving a component from a reactance X at a (positive) frequency f
\* gives an inductor L = X/(2*pi*f) when X > 0, a capacitor
\* C = -1/(2*pi*f*X) when X < 0 and None when X is 0, in typeFromReactance
\* and in calculateFromImpedance alike; deriving from a susceptance B gives
\* a capacitor when B > 0, an inductor when B < 0 and None when B is 0.
C25_FromReactance ==
    /\ TypesFollowSign
    /\ (call.fn = "calculateFromImpedance" /\ RGt(call.args[2], Zero)) =>
          Classified(call.result, call.args[1].im, call.args[2],
                     "Inductor", "Capacitor")

\* C25 amended: calculateFromImpedance agrees with typeFromReactance for
\* X > 0 and X < 0; for X = 0 it returns the resistor of value Re(Z) where
\* typeFromReactance returns None.
C25_FromReactanceOrResistor ==
    /\ TypesFollowSign
    /\ (call.fn = "calculateFromImpedance" /\ RGt(call.args[2], Zero)) =>
          IF call.args[1].im = Zero
          THEN /\ call.result.type = "Resistor"
               /\ call.result.value = call.args[1].re
          ELSE Classified(call.result, call.args[1].im, call.args[2],
                          "Inductor", "Capacitor")

\* calculateFromImpedance has answered for a pure resistance at a positive
\* frequency
C25_Witness ==
    /\ call.fn = "calculateFromImpedance"
    /\ call.args[1] = Complex(One, Zero)
    /\ RGt(call.args[2], Zero)
    /\ call.result.type = "Resistor"
    /\ call.result.value = One

---------------------------------------------------------------------------
(* Properties of the colours.                                              *)

ColoursOf(t) == [j \in 1..Len(t.m_segments) |-> t.m_segments[j].color]

\* the palette, entries 0 to 7
Palette ==
    [k \in 0..7 |->
        CASE k = 0 -> "Blue"   [] k = 1 -> "Red"  [] k = 2 -> "Green"
          [] k = 3 -> "Orange" [] k = 4 -> "Purple" [] k = 5 -> "Cyan"
          [] k = 6 -> "Yellow" [] OTHER -> "Gray"]

\* the segment at index k (counted from 0) has palette colour k mod 8
RoundRobin(t) ==
    \A k \in 0..(Len(t.m_segments) - 1) :
        t.m_segments[k + 1].color = Palette[k % 8]

\* C26: a segment computed while the trace holds n segments gets palette
\* entry n mod 8, so after any sequence of appends and remove-lasts the
\* segment at index k has palette colour k mod 8, and updateSegmentValue
\* never changes a colour.
C26_RoundRobinColours ==
    [][ /\ RoundRobin(trace')
        /\ IsAdd(lastOp') =>
              trace'.m_segments[Len(trace'.m_segments)].color
                  = Palette[Len(trace.m_segments) % 8]
        /\ lastOp'.op = "updateSegmentValue" =>
              ColoursOf(trace') = ColoursOf(trace)
      ]_vars

\* a trace of nine segments whose ninth has the first colour again, after
\* an update of its first segment
C26_Witness ==
    /\ Len(Segs) = 9
    /\ Segs[9].color = "Blue"
    /\ Segs[8].color = "Gray"
    /\ Segs[1].componentValue \in UpdateValues
    /\ lastOp.op = "updateSegmentValue"

---------------------------------------------------------------------------
(* Frame properties of the trace.                                          *)

Setters ==
    {"setSourceImpedance", "setLoadImpedance", "setZ0", "setFrequency"}

\* the parameters of t other than the one the setter op assigns
OtherParameters(t, op) ==
    <<IF op = "setSourceImpedance" THEN Zero ELSE t.m_sourceZ,
      IF op = "setLoadImpedance" THEN Zero ELSE t.m_loadZ,
      IF op = "setZ0" THEN Zero ELSE t.m_z0,
      IF op = "setFrequency" THEN Zero ELSE t.m_frequency>>

LabelsOf(t) == [j \in 1..Len(t.m_segments) |-> t.m_segments[j].label]

\* type, connection and componentValue of segment j
ElementOf(t, j) ==
    <<t.m_segments[j].componentType, t.m_segments[j].connectionType,
      t.m_segments[j].componentValue>>

\* C27: setSourceImpedance, setLoadImpedance, setZ0 and setFrequency change
\* only their own parameter and leave the number, points, values and labels
\* of all segments unchanged, also on a non-empty trace; updateSegmentValue(i,
\* v) leaves the number of segments, every segment with index < i, and the
\* type, connection and componentValue of every segment other than i
\* unchanged.
C27_Frame ==
    [][ /\ lastOp'.op \in Setters =>
              /\ OtherParameters(trace', lastOp'.op)
                    = OtherParameters(trace, lastOp'.op)
              /\ Len(trace'.m_segments) = Len(trace.m_segments)
              /\ PointsOf(trace') = PointsOf(trace)
              /\ ValuesOf(trace') = ValuesOf(trace)
              /\ LabelsOf(trace') = LabelsOf(trace)
        /\ lastOp'.op = "updateSegmentValue" =>
              /\ Len(trace'.m_segments) = Len(trace.m_segments)
              /\ Parameters(trace') = Parameters(trace)
              /\ \A j \in 1..Len(trace.m_segments) :
                    /\ j < lastOp'.index + 1 =>
                          trace'.m_segments[j] = trace.m_segments[j]
                    /\ j # lastOp'.index + 1 =>
                          ElementOf(trace', j) = ElementOf(trace, j)
      ]_vars

\* setLoadImpedance was called on a trace of two segments, which still
\* start at the old load
C27_Witness ==
    /\ lastOp.op = "setLoadImpedance"
    /\ Len(Segs) = 2
    /\ Segs[1].points # <<>>
    /\ startPoint(Segs[1]).impedance = Complex(One, One)
    /\ trace.m_loadZ = Complex(Zero, Zero)

---------------------------------------------------------------------------
(* Properties of the main window.                                          *)

Elements == window.m_elements

\* C28: after any sequence of editing actions of the main window
\* (addMatchingElement, onRemoveLastElement, onClearElements,
\* onApplyMatchingSolution, onElementValueDragged, onDeleteElement of the
\* last or of a middle index) the element list of the circuit view and the
\* segment list of the trace have the same length, and element k has the
\* component type, connection type and value of segment k.
C28_ViewMatchesTrace ==
    /\ Len(Elements) = Len(Segs)
    /\ \A k \in 1..Len(Segs) :
          k <= Len(Elements) =>
              /\ Elements[k].type = Segs[k].componentType
              /\ Elements[k].connection = Segs[k].connectionType
              /\ Elements[k].value = Segs[k].componentValue

\* C28 for every handler but the deletion of an element that has one
\* before it and one after it
C28_ExceptMiddleDelete ==
    [][ (C28_ViewMatchesTrace
            /\ ~(/\ lastOp'.op = "onDeleteElement"
                 /\ call'.args[2]
                 /\ lastOp'.index > 0
                 /\ lastOp'.index < Len(Segs) - 1))
        => C28_ViewMatchesTrace'
      ]_vars


\* the edit dialog of element lastOp'.index was cancelled in this step
DialogCancelled ==
    /\ lastOp'.op = "onCircuitElementDoubleClicked"
    /\ lastOp'.index >= 0
    /\ lastOp'.index < Len(Segs)
    /\ ~call'.args[3]

\* the value of the edited segment and the points of all segments are as
\* they were when the dialog opened
DialogRestored ==
    /\ Len(trace'.m_segments) = Len(Segs)
    /\ trace'.m_segments[lastOp'.index + 1].componentValue
           = Segs[lastOp'.index + 1].componentValue
    /\ \A k \in 1..Len(Segs) :
          trace'.m_segments[k].points = Segs[k].points

\* C29: when the edit dialog opened by onCircuitElementDoubleClicked(index)
\* is cancelled after any number of preview requests, each of which calls
\* updateSegmentValue(index, previewValue), the componentValue of segment
\* index and the points of all segments are the same as before the dialog
\* was opened.
C29_CancelRestores ==
    [][DialogCancelled => DialogRestored]_vars

\* C29 for a dialog cancelled before any preview was requested
C29_CancelWithoutPreview ==
    [][(DialogCancelled /\ call'.args[2] = <<>>) => DialogRestored]_vars


\* the solution handed to onApplyMatchingSolution in the last step
AppliedSolution == call.args[1]

C30_Tolerance == Rat(1, 100)

\* C30: after onApplyMatchingSolution is given a valid L-section solution
\* computed by calculateLSection for the trace's own load, source, Z0 and
\* frequency (for example Zs = 50, Zl = 100, or Zs = 100, Zl = 50), the
\* trace holds one segment per solution element and its currentImpedance()
\* equals the source impedance within tolerance.
C30_AppliedSolutionMatches ==
    (/\ lastOp.op = "onApplyMatchingSolution"
     /\ AppliedSolution.valid)
    => /\ Len(Segs) = Len(AppliedSolution.elements)
       /\ Within(currentImpedance(trace), trace.m_sourceZ, C30_Tolerance)

\* C30 without the arrival at the source: one segment per element, each
\* with the type, connection and value of its element, in list order
C30_OneSegmentPerElement ==
    (/\ lastOp.op = "onApplyMatchingSolution"
     /\ AppliedSolution.valid)
    => /\ Len(Segs) = Len(AppliedSolution.elements)
       /\ \A k \in 1..Len(Segs) :
             /\ Segs[k].componentType = AppliedSolution.elements[k].type
             /\ Segs[k].connectionType = AppliedSolution.elements[k].connection
             /\ Segs[k].componentValue = AppliedSolution.elements[k].value

=============================================================================
